---- MODULE Spec2Model ----
(***************************************************************************)
(* Fleet orchestrator of Libertai/baal: the warm VM pool                   *)
(* (src/baal/services/pool_manager.py), its callers                        *)
(* (src/baal/handlers/commands.py) and the instance provisioner            *)
(* (src/baal_core/deployer.py).                                            *)
(***************************************************************************)
EXTENDS Integers, Sequences, FiniteSets, TLC

(***************************************************************************)
(* Bounds of the model and configuration of the pool.                      *)
(***************************************************************************)
\* AUTOINCREMENT ids handed out by the vm_pool table: 1..MaxId
MaxId == 4
\* the wall clock runs over 1..MaxTime; one unit is ten minutes
MaxTime == 3
\* the wall clock of the long-running pool runs over 1..MaxWall
MaxWall == 9
\* SQL NULL / Python None of the nullable columns and results
NULL == 0

Ids == 1..MaxId
\* concurrent /create deployments; the agent id of a deployment is its number
Callers == {1, 2}

\* datetime('now', '-10 minutes'): age bound of an orphaned claimed row, in clock units
ClaimedMaxAge == 1
\* datetime('now', '-30 minutes'): age bound of a stuck provisioning row
ProvisioningMaxAge == 3
\* datetime('now', '-1 hour'): age bound of a failed row
FailedMaxAge == 6
\* max_age_hours of the pool, in clock units (one hour)
max_age == 6

VARIABLES
    min_size,   \* VMPool.min_size, set by the constructor
    max_size,   \* VMPool.max_size, set by the constructor
    utc_offset, \* local time of the host minus UTC, in clock units
    store,      \* the vm_pool table: id -> row, or NoRow
    nextId,     \* next AUTOINCREMENT id (sqlite_sequence, persisted)
    now,        \* wall clock
    booted,     \* initialize() has run in this process
    lock,       \* VMPool._lock: the caller holding it, or NULL
    cpc,        \* position of each /create deployment
    csel,       \* row id fetched by the SELECT of claim(), per caller
    cvm,        \* PooledVM.id returned by claim(), per caller
    holders,    \* history: callers a row was returned to since it last became warm
    rpc,        \* position of _replenish_loop
    rpending,   \* provision_with_limit tasks not yet past the semaphore
    rtasks,     \* pool ids of the _provision_one calls in progress
    last,       \* history: the release() or initialize() call made by the last step, if any
    mono,       \* time.monotonic() of the deployer process, in seconds
    crn_blacklist,  \* AlephDeployer._crn_blacklist: url -> expiry
    added_at,   \* history: url -> clock of its last _blacklist_crn, or Never
    ci,         \* the create_instance call in progress: its position and locals
    wfa,        \* the wait_for_allocation call in progress: its position and locals
    da,         \* deploy_agent called with (TRUE) and without (FALSE) on_progress
    peer,       \* the VM at the other end of the SSH connections
    mn,         \* the create_instance call of baal.services.deployer in progress
    pv,         \* the prepare_vm call in progress: its position and locals
    vm,         \* the pool VM prepare_vm works on: what is installed and running
    prov,       \* the _provision_one calls: the deployer behind them, their positions
    agents,     \* the agent record and the position of each deployment flow
    rm,         \* the remove() call in progress and the destructions requested so far
    dc          \* the deploy_agent_code call

callerVars == <<lock, cpc, csel, cvm>>
replVars == <<rpc, rpending, rtasks>>
confVars == <<min_size, max_size, utc_offset>>
poolVars == <<confVars, store, nextId, now, booted, callerVars, holders, replVars, last>>
deplVars == <<mono, crn_blacklist, added_at, ci>>
allocVars == <<wfa>>
agentVars == <<da, peer, mn, pv, vm, prov, agents, rm, dc>>
\* no direct call was made by the last step
NoCall == [op |-> "none", id |-> NULL, was |-> "none", destroyed |-> {}]
vars == <<poolVars, deplVars, allocVars, agentVars>>

NoRow == [status |-> "none"]

\* instance_hash: the placeholder 'pending', or the item hash of a created instance
Pending == <<"pending">>
HashOf(i) == <<"hash", i>>
\* the absence of an instance hash
NoHash == <<>>

\* the placeholder row of _provision_one
PlaceholderRow(t) ==
    [status |-> "provisioning", instance_hash |-> Pending, vm_ip |-> "",
     vm_url |-> "", crn_url |-> "", ssh_port |-> 22,
     created_at |-> t, claimed_at |-> NULL, agent_id |-> NULL]

Exists(i) == store[i] # NoRow
WithStatus(s) == {i \in Ids : store[i].status = s}
Count(s) == Cardinality(WithStatus(s))
Total == Cardinality({i \in Ids : Exists(i)})

\* get_stats(): stats["available"], stats["provisioning"], stats["total"]
WarmCount == Count("warm")
ProvisioningCount == Count("provisioning")

(***************************************************************************)
(* initialize(): recovery from an unclean shutdown.                        *)
(***************************************************************************)
RecoverRowKeepProvisioning(r) ==
    IF r.status = "claimed"
    THEN [r EXCEPT !.status = "warm", !.claimed_at = NULL, !.agent_id = NULL]
    ELSE r

RecoverRow(r) ==
    IF r.status = "claimed"
    THEN [r EXCEPT !.status = "warm", !.claimed_at = NULL, !.agent_id = NULL]
    ELSE IF r.status = "provisioning" THEN NoRow
    ELSE r

VolatileInit ==
    /\ lock = NULL
    /\ cpc = [c \in Callers |-> "idle"]
    /\ csel = [c \in Callers |-> NULL]
    /\ cvm = [c \in Callers |-> NULL]
    /\ rpc = "sleep"
    /\ rpending = 0
    /\ rtasks = {}

VolatileReset ==
    /\ lock' = NULL
    /\ cpc' = [c \in Callers |-> "idle"]
    /\ csel' = [c \in Callers |-> NULL]
    /\ cvm' = [c \in Callers |-> NULL]
    /\ rpc' = "sleep"
    /\ rpending' = 0
    /\ rtasks' = {}

Initialize ==
    /\ ~booted
    /\ booted' = TRUE
    /\ store' = [i \in Ids |-> RecoverRow(store[i])]
    /\ holders' = [i \in Ids |-> {}]
    /\ last' = [op |-> "initialize", id |-> Count("claimed"),
                was |-> IF Count("provisioning") > 0 THEN "provisioning" ELSE "none",
                destroyed |-> {}]
    /\ UNCHANGED <<nextId, now, callerVars, replVars, deplVars, allocVars, confVars, agentVars>>

\* the process dies (or is stopped) and is started again: only the table survives
Crash ==
    /\ booted
    /\ booted' = FALSE
    /\ VolatileReset
    /\ UNCHANGED <<store, nextId, now, holders, deplVars, allocVars, confVars, agentVars>>
    /\ last' = NoCall

Tick ==
    /\ now < MaxTime
    /\ now' = now + 1
    /\ UNCHANGED <<store, nextId, booted, lock, cpc, csel, cvm, holders,
                   rpc, rpending, rtasks, deplVars, allocVars, confVars, agentVars>>
    /\ last' = NoCall

(***************************************************************************)
(* claim(): async with self._lock; SELECT oldest warm; UPDATE; return.     *)
(***************************************************************************)
LockFreeAlways == TRUE

OldestWarmAny == WithStatus("warm")

\* async with self._lock: the lock is granted only when nobody holds it
LockFree == lock = NULL

\* ORDER BY created_at ASC LIMIT 1 over the warm rows
OldestWarm ==
    {i \in WithStatus("warm") :
        \A j \in WithStatus("warm") : store[i].created_at <= store[j].created_at}

ClaimAcquire(c) ==
    /\ booted
    /\ cpc[c] = "idle"
    /\ LockFree
    /\ lock' = c
    /\ cpc' = [cpc EXCEPT ![c] = "select"]
    /\ UNCHANGED <<store, nextId, now, booted, csel, cvm, holders, rpc, rpending, rtasks, deplVars, allocVars, confVars, agentVars>>
    /\ last' = NoCall

\* the SELECT finds no warm row: claim() returns None
ClaimEmpty(c) ==
    /\ cpc[c] = "select"
    /\ WithStatus("warm") = {}
    /\ cpc' = [cpc EXCEPT ![c] = "idle"]
    /\ csel' = [csel EXCEPT ![c] = NULL]
    /\ cvm' = [cvm EXCEPT ![c] = NULL]
    /\ lock' = IF lock = c THEN NULL ELSE lock
    /\ UNCHANGED <<store, nextId, now, booted, holders, rpc, rpending, rtasks, deplVars, allocVars, confVars, agentVars>>
    /\ last' = NoCall

ClaimSelect(c) ==
    /\ cpc[c] = "select"
    /\ \E r \in OldestWarm :
          csel' = [csel EXCEPT ![c] = r]
    /\ cpc' = [cpc EXCEPT ![c] = "update"]
    /\ UNCHANGED <<store, nextId, now, booted, lock, cvm, holders, rpc, rpending, rtasks, deplVars, allocVars, confVars, agentVars>>
    /\ last' = NoCall

\* UPDATE vm_pool SET status = 'claimed', claimed_at = ? WHERE id = ?
ClaimedRow(r, t) == [r EXCEPT !.status = "claimed", !.claimed_at = t]

\* UPDATE ... WHERE id = ?; commit; return PooledVM(id = row["id"], ...)
ClaimUpdate(c) ==
    /\ cpc[c] = "update"
    /\ store' = [store EXCEPT ![csel[c]] =
                    IF Exists(csel[c]) THEN ClaimedRow(@, now) ELSE @]
    /\ cvm' = [cvm EXCEPT ![c] = csel[c]]
    /\ csel' = [csel EXCEPT ![c] = NULL]
    /\ holders' = [holders EXCEPT ![csel[c]] = @ \cup {c}]
    /\ cpc' = [cpc EXCEPT ![c] = "deploy"]
    /\ lock' = IF lock = c THEN NULL ELSE lock
    /\ UNCHANGED <<nextId, now, booted, rpc, rpending, rtasks, deplVars, allocVars, confVars, agentVars>>
    /\ last' = NoCall

(***************************************************************************)
(* mark_deployed(), release(), remove(), remove_by_instance()              *)
(***************************************************************************)
\* UPDATE vm_pool SET status = 'deployed', agent_id = ? WHERE id = ?
MarkDeployedRow(r, a) ==
    IF r = NoRow THEN r ELSE [r EXCEPT !.status = "deployed", !.agent_id = a]

ReleaseRowUnguarded(r) ==
    IF r # NoRow
    THEN [r EXCEPT !.status = "warm", !.claimed_at = NULL, !.agent_id = NULL]
    ELSE r

\* UPDATE ... SET status = 'warm', claimed_at = NULL, agent_id = NULL
\* WHERE id = ? AND status = 'claimed'
ReleaseRow(r) ==
    IF r.status = "claimed"
    THEN [r EXCEPT !.status = "warm", !.claimed_at = NULL, !.agent_id = NULL]
    ELSE r

\* the history of a row is reset when the row is put back to warm
HoldersAfter(old, new) ==
    [i \in Ids |-> IF old[i].status # "warm" /\ new[i].status = "warm"
                   THEN {} ELSE holders[i]]

mark_deployed(pool_id, agent_id) ==
    /\ store' = [store EXCEPT ![pool_id] = MarkDeployedRow(@, agent_id)]
    /\ holders' = holders

release(pool_id) ==
    /\ store' = [store EXCEPT ![pool_id] = ReleaseRow(@)]
    /\ holders' = HoldersAfter(store, store')

\* DELETE FROM vm_pool WHERE id = ?
remove(pool_id) ==
    /\ store' = [store EXCEPT ![pool_id] = NoRow]
    /\ holders' = holders

\* _deploy_agent_fast: deploy_agent succeeded, mark_deployed(pooled_vm.id, agent_id)
DeploySucceed(c) ==
    /\ cpc[c] = "deploy"
    /\ mark_deployed(cvm[c], c)
    /\ cpc' = [cpc EXCEPT ![c] = "idle"]
    /\ cvm' = [cvm EXCEPT ![c] = NULL]
    /\ UNCHANGED <<nextId, now, booted, lock, csel, rpc, rpending, rtasks, deplVars, allocVars, confVars, agentVars>>
    /\ last' = NoCall

\* _deploy_agent_fast: deploy_agent failed or raised, release(pooled_vm.id)
DeployFail(c) ==
    /\ cpc[c] = "deploy"
    /\ release(cvm[c])
    /\ cpc' = [cpc EXCEPT ![c] = "idle"]
    /\ cvm' = [cvm EXCEPT ![c] = NULL]
    /\ UNCHANGED <<nextId, now, booted, lock, csel, rpc, rpending, rtasks, deplVars, allocVars, confVars, agentVars>>
    /\ last' = NoCall

\* /delete of an agent deployed on a pool VM: remove_by_instance(instance_hash)
DeleteAgent(i) ==
    /\ booted
    /\ store[i].status = "deployed"
    /\ store' = [j \in Ids |->
                    IF Exists(j) /\ store[j].instance_hash = store[i].instance_hash
                    THEN NoRow ELSE store[j]]
    /\ UNCHANGED <<nextId, now, booted, lock, cpc, csel, cvm, holders,
                   rpc, rpending, rtasks, deplVars, allocVars, confVars, agentVars>>
    /\ last' = NoCall

(***************************************************************************)
(* _replenish_loop: _replenish_once, _cleanup_stale, sleep.                *)
(***************************************************************************)
Min(a, b) == IF a <= b THEN a ELSE b

\* asyncio.Semaphore(2)
SemaphoreSize == 2

needed == min_size - WarmCount - ProvisioningCount
can_create_available == max_size - WarmCount - ProvisioningCount
can_create == max_size - Total
to_create == Min(needed, can_create)

\* get_stats() and the decision of _replenish_once; with nothing to create
\* the cycle is over at once
ReplenishCheck ==
    /\ booted
    /\ rpc = "sleep"
    /\ IF to_create <= 0
       THEN /\ rpc' = "cleanup"
            /\ rpending' = 0
       ELSE /\ nextId + to_create - 1 <= MaxId
            /\ rpc' = "gather"
            /\ rpending' = to_create
    /\ UNCHANGED <<store, nextId, now, booted, lock, cpc, csel, cvm, holders, rtasks, deplVars, allocVars, confVars, agentVars>>
    /\ last' = NoCall

\* async with semaphore: a task enters when fewer than SemaphoreSize hold it
SemaphoreFreeAlways == TRUE
SemaphoreFree == Cardinality(rtasks) < SemaphoreSize

\* provision_with_limit passes the semaphore; _provision_one inserts its placeholder
ProvisionInsert ==
    /\ rpc = "gather"
    /\ rpending > 0
    /\ SemaphoreFree
    /\ store' = [store EXCEPT ![nextId] = PlaceholderRow(now)]
    /\ nextId' = nextId + 1
    /\ rtasks' = rtasks \cup {nextId}
    /\ rpending' = rpending - 1
    /\ UNCHANGED <<now, booted, lock, cpc, csel, cvm, holders, rpc, deplVars, allocVars, confVars, agentVars>>
    /\ last' = NoCall

\* mutation of WarmRow: the status is set, the placeholder values stay
WarmRowStatusOnly(r, i) == [r EXCEPT !.status = "warm"]

\* UPDATE vm_pool SET instance_hash = ?, ..., status = 'warm' WHERE id = ?
WarmRow(r, i) ==
    [r EXCEPT !.instance_hash = HashOf(i), !.vm_ip = "vm_ipv4",
              !.vm_url = "https://subdomain.2n6.me", !.crn_url = "crn_url",
              !.ssh_port = 24000, !.status = "warm"]

\* create_instance, wait_for_allocation, lookup_subdomain and prepare_vm succeeded
ProvisionSucceed(i) ==
    /\ i \in rtasks
    /\ store' = [store EXCEPT ![i] = IF Exists(i) THEN WarmRow(@, i) ELSE @]
    /\ rtasks' = rtasks \ {i}
    /\ holders' = [holders EXCEPT ![i] = {}]
    /\ UNCHANGED <<nextId, now, booted, lock, cpc, csel, cvm, rpc, rpending, deplVars, allocVars, confVars, agentVars>>
    /\ last' = NoCall

\* the awaited calls of _provision_one, any of which can fail
ProvisionSteps == {"create_instance", "wait_for_allocation", "lookup_subdomain", "prepare_vm"}

\* UPDATE vm_pool SET status = 'failed' WHERE id = ?
FailedRowDeleted(r) == NoRow
FailedRow(r) == [r EXCEPT !.status = "failed"]

\* mutation of AfterProvisionError: the exception leaves gather and _replenish_once;
\* _replenish_loop logs it and sleeps
AfterProvisionErrorAbort(pc) == "sleep"
\* gather(*tasks, return_exceptions=True): the exception of one task is collected
\* and _replenish_once keeps waiting for the others
AfterProvisionError(pc) == pc

\* a step of _provision_one failed: the row is marked failed and the exception raised again
ProvisionFailAt(i, step) ==
    /\ i \in rtasks
    /\ step \in ProvisionSteps
    /\ store' = [store EXCEPT ![i] = IF Exists(i) THEN FailedRow(@) ELSE @]
    /\ rtasks' = rtasks \ {i}
    /\ rpc' = AfterProvisionError(rpc)
    /\ last' = [op |-> "provision_failed", id |-> i, was |-> step, destroyed |-> {}]
    /\ UNCHANGED <<nextId, now, booted, lock, cpc, csel, cvm, holders, rpending, deplVars, allocVars, confVars, agentVars>>

\* async def prepare_vm(self, vm_ip, ssh_port): the parameters after self, in both
\* deployers
PrepareVmParameters == <<"vm_ip", "ssh_port">>
\* self.deployer.prepare_vm(vm_ip, ssh_port, fqdn): the arguments _provision_one passes
PrepareVmArguments == <<"vm_ip", "ssh_port", "fqdn">>
\* a call with positional arguments only, of a function without defaults or *args:
\* it binds when there is one argument per parameter, and raises TypeError otherwise
CallBinds(arguments, parameters) == Len(arguments) = Len(parameters)

\* _provision_one with the deployer main.py constructs, every remote operation
\* succeeding: creation, allocation and lookup return, then the row is written warm
\* if the prepare_vm call binds; if not, its TypeError takes the except clause
ProvisionRemoteOk(i) ==
    /\ i \in rtasks
    /\ IF CallBinds(PrepareVmArguments, PrepareVmParameters)
       THEN /\ store' = [store EXCEPT ![i] = IF Exists(i) THEN WarmRow(@, i) ELSE @]
            /\ holders' = [holders EXCEPT ![i] = {}]
            /\ rpc' = rpc
            /\ last' = NoCall
       ELSE /\ store' = [store EXCEPT ![i] = IF Exists(i) THEN FailedRow(@) ELSE @]
            /\ holders' = holders
            /\ rpc' = AfterProvisionError(rpc)
            /\ last' = [op |-> "provision_failed", id |-> i, was |-> "TypeError", destroyed |-> {}]
    /\ rtasks' = rtasks \ {i}
    /\ UNCHANGED <<nextId, now, booted, lock, cpc, csel, cvm, rpending, deplVars, allocVars, confVars, agentVars>>

(***************************************************************************)
(* The deployment flows that call create_instance: _deploy_agent_background *)
(* of the bot and deploy_agent_background of the REST service, and /repair. *)
(***************************************************************************)
Flows == {"bot", "rest"}
\* the instance hashes a creation can produce
FlowHashes == {HashOf(1), HashOf(2)}
\* the agent row after /create or POST /agents, its flow not started; result is the
\* value create_instance returned to the flow, repair what /repair found
FlowIdle ==
    [pc |-> "idle", deployment_status |-> "pending", instance_hash |-> NoHash,
     result |-> [status |-> "none", instance_hash |-> NoHash], repair |-> "none"]

\* what create_instance returns to a flow: success with the hash, the error without
\* hash, or the error after every start failed, with the hash of the instance created
CreateResults ==
    {[status |-> "success", instance_hash |-> h] : h \in FlowHashes}
    \cup {[status |-> "error", instance_hash |-> NoHash]}
    \cup {[status |-> "error", instance_hash |-> h] : h \in FlowHashes}

\* deployment_status = "deploying", then the call of create_instance
FlowStart(f) ==
    /\ agents[f].pc = "idle"
    /\ agents' = [agents EXCEPT ![f].pc = "create_instance",
                                ![f].deployment_status = "deploying"]
    /\ UNCHANGED <<da, peer, mn, pv, vm, prov, rm, dc, poolVars, deplVars, allocVars>>

\* _deploy_agent_background: result = await deployer.create_instance(name)
BotCreateInstance(result) ==
    /\ agents["bot"].pc = "create_instance"
    /\ agents' =
         [agents EXCEPT !["bot"] =
            IF result.status # "success"
            THEN IF result.instance_hash # NoHash
                 THEN [@ EXCEPT !.instance_hash = result.instance_hash,
                                !.deployment_status = "failed",
                                !.result = result, !.pc = "ended"]
                 ELSE [@ EXCEPT !.deployment_status = "failed",
                                !.result = result, !.pc = "ended"]
            ELSE [@ EXCEPT !.instance_hash = result.instance_hash,
                           !.result = result, !.pc = "wait_for_allocation"]]
    /\ UNCHANGED <<da, peer, mn, pv, vm, prov, rm, dc, poolVars, deplVars, allocVars>>

\* deploy_agent_background: create_result = await deployer.create_instance(agent.name)
RestCreateInstance(result) ==
    /\ agents["rest"].pc = "create_instance"
    /\ agents' =
         [agents EXCEPT !["rest"] =
            IF result.status # "success"
            THEN [@ EXCEPT !.deployment_status = "failed",
                           !.result = result, !.pc = "ended"]
            ELSE [@ EXCEPT !.instance_hash = result.instance_hash,
                           !.result = result, !.pc = "wait_for_allocation"]]
    /\ UNCHANGED <<da, peer, mn, pv, vm, prov, rm, dc, poolVars, deplVars, allocVars>>

\* create_instance raises: except Exception sets deployment_status "failed"
FlowCreateRaises(f) ==
    /\ agents[f].pc = "create_instance"
    /\ agents' = [agents EXCEPT ![f].deployment_status = "failed", ![f].pc = "ended"]
    /\ UNCHANGED <<da, peer, mn, pv, vm, prov, rm, dc, poolVars, deplVars, allocVars>>

\* alloc = await deployer.wait_for_allocation(instance_hash, crn_url); the steps of
\* a flow after the allocation are not part of this model
FlowWaitForAllocation(f, allocated) ==
    /\ agents[f].pc = "wait_for_allocation"
    /\ agents' = IF allocated
                 THEN [agents EXCEPT ![f].pc = "deploy_agent"]
                 ELSE [agents EXCEPT ![f].deployment_status = "failed", ![f].pc = "ended"]
    /\ UNCHANGED <<da, peer, mn, pv, vm, prov, rm, dc, poolVars, deplVars, allocVars>>

\* /repair on the bot's agent once its flow has ended: it needs a failed or deploying
\* agent and an instance hash to resume with
repair_command ==
    /\ agents["bot"].pc = "ended"
    /\ agents["bot"].deployment_status \in {"failed", "deploying"}
    /\ agents' = [agents EXCEPT !["bot"].repair =
                     IF agents["bot"].instance_hash = NoHash THEN "no_instance_hash"
                     ELSE "resumed",
                                !["bot"].pc = "repaired"]
    /\ UNCHANGED <<da, peer, mn, pv, vm, prov, rm, dc, poolVars, deplVars, allocVars>>

NextFlows ==
    \/ \E f \in Flows : FlowStart(f)
    \/ \E result \in CreateResults : BotCreateInstance(result)
    \/ \E result \in CreateResults : RestCreateInstance(result)
    \/ \E f \in Flows : FlowCreateRaises(f)
    \/ \E f \in Flows, allocated \in BOOLEAN : FlowWaitForAllocation(f, allocated)
    \/ repair_command

(***************************************************************************)
(* _provision_one(), one step per awaited call of the deployer.            *)
(***************************************************************************)
\* the calls in progress: parameters is the parameter list of prepare_vm of the
\* deployer handed to VMPool.__init__; pc the call each attempt awaits; instance the
\* instance created on the network for an attempt; prepared the attempts whose
\* prepare_vm returned success; cycle the rows inserted by the _replenish_once call
\* in progress (or the last one)
ProvIdle(parameters) ==
    [parameters |-> parameters, pc |-> [i \in Ids |-> "create_instance"],
     instance |-> [i \in Ids |-> NoHash], prepared |-> {}, cycle |-> {}]

\* _replenish_once up to its tasks list, the rows of the cycle noted
ReplenishOnceEntered ==
    /\ booted
    /\ rpc = "sleep"
    /\ IF to_create <= 0
       THEN /\ rpc' = "cleanup"
            /\ rpending' = 0
       ELSE /\ nextId + to_create - 1 <= MaxId
            /\ rpc' = "gather"
            /\ rpending' = to_create
    /\ prov' = [prov EXCEPT !.cycle = {}]
    /\ last' = NoCall
    /\ UNCHANGED <<store, nextId, now, booted, lock, cpc, csel, cvm, holders, rtasks, deplVars, allocVars, confVars, da, peer, mn, pv, vm, agents, rm, dc>>

\* the placeholder INSERT of _provision_one, the row noted as one of the cycle
PoInsert ==
    /\ rpc = "gather"
    /\ rpending > 0
    /\ SemaphoreFree
    /\ store' = [store EXCEPT ![nextId] = PlaceholderRow(now)]
    /\ nextId' = nextId + 1
    /\ rtasks' = rtasks \cup {nextId}
    /\ rpending' = rpending - 1
    /\ prov' = [prov EXCEPT !.cycle = @ \cup {nextId}]
    /\ last' = NoCall
    /\ UNCHANGED <<now, booted, lock, cpc, csel, cvm, holders, rpc, deplVars, allocVars, confVars, da, peer, mn, pv, vm, agents, rm, dc>>

\* what create_instance of baal.services.deployer can hand back: success, an error
\* without hash, the error after all start attempts failed (with the hash of the
\* instance created), or an exception
CreateOutcomes == {"success", "error", "error_with_hash", "exception"}
\* what the call self.deployer.prepare_vm(vm_ip, ssh_port, fqdn) can do
PrepareOutcomes ==
    IF CallBinds(PrepareVmArguments, prov.parameters) THEN {"success", "error"}
    ELSE {"TypeError"}

\* mutation of PrepareFailed: the result of prepare_vm is not looked at
PrepareFailedNever(outcome) == FALSE
\* if prep_result.get("status") != "success": raise RuntimeError
PrepareFailed(outcome) == outcome # "success"

\* except Exception: UPDATE vm_pool SET status = 'failed' WHERE id = ?; raise
ProvisionRaise(i, p, step) ==
    /\ store' = [store EXCEPT ![i] = IF Exists(i) THEN FailedRow(@) ELSE @]
    /\ rtasks' = rtasks \ {i}
    /\ rpc' = AfterProvisionError(rpc)
    /\ prov' = p
    /\ last' = [op |-> "provision_failed", id |-> i, was |-> step, destroyed |-> {}]
    /\ UNCHANGED <<nextId, now, booted, lock, cpc, csel, cvm, holders, rpending, deplVars, allocVars, confVars, da, peer, mn, pv, vm, agents, rm, dc>>

\* the attempt goes on to its next await
ProvisionGoOn(p) ==
    /\ prov' = p
    /\ last' = NoCall
    /\ UNCHANGED <<store, nextId, now, booted, lock, cpc, csel, cvm, holders, rpc, rpending, rtasks, deplVars, allocVars, confVars, da, peer, mn, pv, vm, agents, rm, dc>>

\* result = await self.deployer.create_instance(f"pool-{pool_id}")
PoCreateInstance(i, outcome) ==
    /\ i \in rtasks
    /\ prov.pc[i] = "create_instance"
    /\ LET created == [prov EXCEPT !.instance[i] = HashOf(i)]
       IN  CASE outcome = "success" ->
                  ProvisionGoOn([created EXCEPT !.pc[i] = "wait_for_allocation"])
             [] outcome = "error_with_hash" -> ProvisionRaise(i, created, "create_instance")
             [] OTHER -> ProvisionRaise(i, prov, "create_instance")

\* alloc = await self.deployer.wait_for_allocation(instance_hash, crn_url)
PoWaitForAllocation(i, allocated) ==
    /\ i \in rtasks
    /\ prov.pc[i] = "wait_for_allocation"
    /\ IF allocated
       THEN ProvisionGoOn([prov EXCEPT !.pc[i] = "lookup_subdomain"])
       ELSE ProvisionRaise(i, prov, "wait_for_allocation")

\* subdomain = await self.deployer.lookup_subdomain(instance_hash)
PoLookupSubdomain(i, found) ==
    /\ i \in rtasks
    /\ prov.pc[i] = "lookup_subdomain"
    /\ IF found
       THEN ProvisionGoOn([prov EXCEPT !.pc[i] = "prepare_vm"])
       ELSE ProvisionRaise(i, prov, "lookup_subdomain")

\* prep_result = await self.deployer.prepare_vm(vm_ip, ssh_port, fqdn)
PoPrepareVm(i, outcome) ==
    /\ i \in rtasks
    /\ prov.pc[i] = "prepare_vm"
    /\ outcome \in PrepareOutcomes
    /\ IF outcome = "TypeError" THEN ProvisionRaise(i, prov, "TypeError")
       ELSE IF PrepareFailed(outcome) THEN ProvisionRaise(i, prov, "prepare_vm")
       ELSE ProvisionGoOn([prov EXCEPT !.pc[i] = "update",
                                       !.prepared = prov.prepared \cup
                                                    (IF outcome = "success" THEN {i} ELSE {})])

\* UPDATE vm_pool SET instance_hash = ?, ..., status = 'warm' WHERE id = ?; commit
PoUpdate(i) ==
    /\ i \in rtasks
    /\ prov.pc[i] = "update"
    /\ store' = [store EXCEPT ![i] = IF Exists(i) THEN WarmRow(@, i) ELSE @]
    /\ rtasks' = rtasks \ {i}
    /\ holders' = [holders EXCEPT ![i] = {}]
    /\ last' = NoCall
    /\ UNCHANGED <<nextId, now, booted, lock, cpc, csel, cvm, rpc, rpending, deplVars, allocVars, confVars, agentVars>>

_provision_one ==
    \/ PoInsert
    \/ \E i \in Ids, outcome \in CreateOutcomes : PoCreateInstance(i, outcome)
    \/ \E i \in Ids, allocated \in BOOLEAN : PoWaitForAllocation(i, allocated)
    \/ \E i \in Ids, found \in BOOLEAN : PoLookupSubdomain(i, found)
    \/ \E i \in Ids, outcome \in {"success", "error", "TypeError"} : PoPrepareVm(i, outcome)
    \/ \E i \in Ids : PoUpdate(i)

\* the same, at whichever step
ProvisionFail(i) ==
    /\ i \in rtasks
    /\ store' = [store EXCEPT ![i] = IF Exists(i) THEN FailedRow(@) ELSE @]
    /\ rtasks' = rtasks \ {i}
    /\ rpc' = AfterProvisionError(rpc)
    /\ UNCHANGED <<nextId, now, booted, lock, cpc, csel, cvm, holders, rpending, deplVars, allocVars, confVars, agentVars>>
    /\ last' = NoCall

\* the item hashes create_instance may answer: nothing in the pool keeps it from
\* answering one the table already holds
ItemHashes == {HashOf(1), HashOf(2)}

\* idx_pool_hash, UNIQUE ON vm_pool(instance_hash) WHERE instance_hash != 'pending':
\* the statement giving row i the hash h is refused when another row holds h
ViolatesIndexNever(i, h) == FALSE
ViolatesIndex(i, h) ==
    /\ h # Pending
    /\ \E j \in Ids \ {i} : Exists(j) /\ store[j].instance_hash = h

\* the steps of _provision_one succeeded with item hash h: the UPDATE to warm runs,
\* and an IntegrityError of it lands in the except block like any other failure
ProvisionUpdate(i, h) ==
    /\ i \in rtasks
    /\ store' = [store EXCEPT ![i] =
                    IF ~Exists(i) THEN @
                    ELSE IF ViolatesIndex(i, h) THEN FailedRow(@)
                    ELSE [WarmRow(@, i) EXCEPT !.instance_hash = h]]
    /\ rtasks' = rtasks \ {i}
    /\ holders' = [holders EXCEPT ![i] = {}]
    /\ rpc' = IF ViolatesIndex(i, h) THEN AfterProvisionError(rpc) ELSE rpc
    /\ last' = [op |-> "provision_update", id |-> i,
                was |-> IF ViolatesIndex(i, h) THEN "IntegrityError" ELSE "warm",
                destroyed |-> {}]
    /\ UNCHANGED <<nextId, now, booted, lock, cpc, csel, cvm, rpending, deplVars, allocVars, confVars, agentVars>>

\* mutation of ReplenishReturn: the attempts are started and not awaited
ReplenishReturnUnawaited ==
    /\ rpc = "gather"
    /\ rpending = 0
    /\ rpc' = "cleanup"
    /\ UNCHANGED <<store, nextId, now, booted, lock, cpc, csel, cvm, holders, rpending, rtasks, deplVars, allocVars, confVars, agentVars>>
    /\ last' = NoCall

\* asyncio.gather returned: _replenish_once is complete
ReplenishReturn ==
    /\ rpc = "gather"
    /\ rpending = 0
    /\ rtasks = {}
    /\ rpc' = "cleanup"
    /\ UNCHANGED <<store, nextId, now, booted, lock, cpc, csel, cvm, holders, rpending, rtasks, deplVars, allocVars, confVars, agentVars>>
    /\ last' = NoCall

\* datetime('now', '-<age>', 'utc'): 'now' is UTC already, and the 'utc' modifier
\* takes the value on its left for local time and subtracts the host's offset
Cutoff(age) == (now - age) - utc_offset

\* the rows the statements of _cleanup_stale select
StaleWarm == {i \in WithStatus("warm") : store[i].created_at < Cutoff(max_age)}
StaleFailed == {i \in WithStatus("failed") : store[i].created_at < Cutoff(FailedMaxAge)}
StaleProvisioning ==
    {i \in WithStatus("provisioning") : store[i].created_at < Cutoff(ProvisioningMaxAge)}
\* mutation of OrphanedClaimed: the cleanup pass releases no claimed row
OrphanedClaimedNone == {}
OrphanedClaimed ==
    {i \in WithStatus("claimed") : store[i].claimed_at < Cutoff(ClaimedMaxAge)}

CleanedRow(i) ==
    IF i \in StaleWarm \cup StaleFailed \cup StaleProvisioning THEN NoRow
    ELSE IF i \in OrphanedClaimed THEN ReleaseRow(store[i])
    ELSE store[i]

\* _cleanup_stale, then asyncio.sleep(replenish_interval)
CleanupStale ==
    /\ rpc = "cleanup"
    /\ store' = [i \in Ids |-> CleanedRow(i)]
    /\ holders' = HoldersAfter(store, store')
    /\ rpc' = "sleep"
    /\ UNCHANGED <<nextId, now, booted, lock, cpc, csel, cvm, rpending, rtasks, deplVars, allocVars, confVars, agentVars>>
    /\ last' = [op |-> "cleanup", id |-> NULL, was |-> "none", destroyed |-> StaleWarm]

(***************************************************************************)
(* Direct calls of the public methods, with any argument.                  *)
(***************************************************************************)
StatusOf(i) == store[i].status

ApiRelease(i) ==
    /\ booted
    /\ release(i)
    /\ last' = [op |-> "release", id |-> i, was |-> StatusOf(i), destroyed |-> {}]
    /\ UNCHANGED <<nextId, now, booted, callerVars, replVars, deplVars, allocVars, confVars, agentVars>>

ApiMarkDeployed(i, a) ==
    /\ booted
    /\ mark_deployed(i, a)
    /\ last' = NoCall
    /\ UNCHANGED <<nextId, now, booted, callerVars, replVars, deplVars, allocVars, confVars, agentVars>>

ApiRemove(i) ==
    /\ booted
    /\ remove(i)
    /\ last' = NoCall
    /\ UNCHANGED <<nextId, now, booted, callerVars, replVars, deplVars, allocVars, confVars, agentVars>>

(***************************************************************************)
(* The instance provisioner (src/baal_core/deployer.py): node endpoints,   *)
(* the temporary blacklist and the node directory.                         *)
(***************************************************************************)
\* CRN_BLACKLIST_TTL, in seconds
CRN_BLACKLIST_TTL == 600
\* time.monotonic() runs over 1..MaxMono
MaxMono == 904
\* the clock is observed at steps around half a TTL, so that both sides of an
\* expiry are visited
HalfTTL == CRN_BLACKLIST_TTL \div 2
Steps == {HalfTTL - 1, HalfTTL, HalfTTL + 1}

\* An endpoint string: an optional scheme, a host and an optional trailing "/".
Url(s, h, sl) == [scheme |-> s, host |-> h, slash |-> sl]
NoUrl == Url("", "", FALSE)
Hosts == {"crn1", "crn2", "crn3", "crn4", "crn5", "crn6"}
Schemes == {"", "http", "https"}
\* the strings a blacklist key or a listed url can be: no trailing "/"
Urls == {Url(s, h, FALSE) : s \in Schemes, h \in Hosts}

\* str.rstrip("/")
RStrip(u) == [u EXCEPT !.slash = FALSE]
\* str.startswith("http")
StartsWithHttp(u) == u.scheme # ""
\* the url create_instance and wait_for_allocation talk to
NormalizeUrl(u) ==
    RStrip(IF StartsWithHttp(u) THEN u ELSE [u EXCEPT !.scheme = "https"])

\* mutation of Expired: an entry lives one instant longer
ExpiredAfter(t, expiry) == t > expiry
\* time.monotonic() >= expiry
Expired(t, expiry) == t >= expiry

\* _is_blacklisted(crn_url) evaluated on blacklist bl at clock t
BlacklistedIn(bl, t, u) == bl[u] # NULL /\ ~Expired(t, bl[u])
IsBlacklisted(u) == BlacklistedIn(crn_blacklist, mono, u)
\* _prune_blacklist() and the deletions made by _is_blacklisted()
Pruned(bl, t) ==
    [u \in Urls |-> IF bl[u] # NULL /\ Expired(t, bl[u]) THEN NULL ELSE bl[u]]
\* _blacklist_crn(crn_url, reason)
BlacklistCrnNot(bl, t, u) == bl
BlacklistCrn(bl, t, u) == [bl EXCEPT ![u] = t + CRN_BLACKLIST_TTL]

\* A node of crns.json; score, load5 in hundredths, memory in GB.
Node(h, addr, ipv6, qemu, active, score, mem, load5, cpus) ==
    [hash |-> h, address |-> addr, ipv6_check |-> ipv6, qemu_support |-> qemu,
     active |-> active, score |-> score, mem_avail_gb |-> mem, load5 |-> load5,
     cpu_count |-> cpus]
\* the list served by crns-list.aleph.sh
Directory ==
    << Node("crn1", Url("https", "crn1", TRUE), TRUE, TRUE, TRUE, 50, 64, 100, 4),
       Node("crn2", Url("", "crn2", FALSE), TRUE, TRUE, TRUE, 80, 64, 200, 4),
       Node("crn3", Url("https", "crn3", FALSE), TRUE, TRUE, TRUE, 20, 64, 0, 4),
       Node("crn4", Url("http", "crn4", FALSE), TRUE, TRUE, TRUE, 100, 16, 0, 4),
       Node("crn5", Url("https", "crn5", FALSE), TRUE, FALSE, TRUE, 95, 64, 0, 8) >>
NodeOf(h) == CHOOSE n \in {Directory[k] : k \in 1..Len(Directory)} : n.hash = h

\* node_score < 0.3 is skipped (hundredths)
ScoreMin == 30
Max(a, b) == IF a >= b THEN a ELSE b
\* the filter of get_available_crns
Viable(n) ==
    /\ n.ipv6_check
    /\ n.qemu_support
    /\ n.active
    /\ ~(n.score < ScoreMin)
\* 0.40 * node_score_norm + 0.35 * mem_score + 0.25 * cpu_idle, times 10000
Composite(n) ==
    LET cpu_idle == 100 - Min(n.load5 \div Max(n.cpu_count, 1), 100)
        mem_score == Min((n.mem_avail_gb * 100) \div 64, 100)
        node_score_norm == Min(Max(n.score, 0), 100)
    IN 40 * node_score_norm + 35 * mem_score + 25 * cpu_idle
\* the dict appended to crns for a node
CrnEntry(n) ==
    [hash |-> n.hash, url |-> RStrip(n.address), score |-> n.score,
     composite |-> Composite(n)]

RECURSIVE SelectSeq2(_, _, _)
\* [x for x in s if Keep(x)], Keep given as the set of kept hashes
SelectSeq2(s, kept, k) ==
    IF k > Len(s) THEN <<>>
    ELSE (IF s[k].hash \in kept THEN <<s[k]>> ELSE <<>>) \o SelectSeq2(s, kept, k + 1)

RECURSIVE InsertSorted(_, _)
\* x placed after every element whose key is not larger: a stable sort step
InsertSorted(s, x) ==
    IF s = <<>> THEN <<x>>
    ELSE IF -Head(s).composite <= -x.composite THEN <<Head(s)>> \o InsertSorted(Tail(s), x)
    ELSE <<x>> \o s
RECURSIVE SortByComposite(_, _)
\* crns.sort(key=lambda c: -c["composite"]): stable, on the first k entries
SortByComposite(s, k) ==
    IF k = 0 THEN <<>> ELSE InsertSorted(SortByComposite(s, k - 1), s[k])

\* the list get_available_crns returns for a served list of nodes, on blacklist bl
AvailableCrns(nodes, bl, t) ==
    LET viable == {nodes[k].hash : k \in {j \in 1..Len(nodes) : Viable(nodes[j])}}
        crns == [k \in 1..Len(SelectSeq2(nodes, viable, 1)) |->
                    CrnEntry(SelectSeq2(nodes, viable, 1)[k])]
        open == {crns[k].hash : k \in {j \in 1..Len(crns) :
                                        ~BlacklistedIn(Pruned(bl, t), t, crns[j].url)}}
        kept == SelectSeq2(crns, open, 1)
    IN SortByComposite(kept, Len(kept))

(***************************************************************************)
(* create_instance(): one call at a time, a step per await.                *)
(***************************************************************************)
\* crns[:5]
MaxCandidates == 5
\* range(6): checks that the message reached the network
VerifyAttempts == 6
\* max_start_attempts
max_start_attempts == 3
\* str(message.item_hash) of the instance message created for a node
ItemHash(h) == <<"item_hash", h>>

CiIdle ==
    [pc |-> "idle", crns |-> <<>>, candidates |-> <<>>, k |-> 0, selected |-> "",
     crn_url |-> NoUrl, instance_hash |-> NoHash, attempt |-> 0, failures |-> 0,
     result |-> [status |-> "none", instance_hash |-> NoHash, crn_url |-> NoUrl]]

\* mutation of StartFailedResult: the error of a failed creation, without the hash
ErrorWithoutHash(h) == [status |-> "error", instance_hash |-> NoHash, crn_url |-> NoUrl]
\* {"status": "error", "error": ..., "instance_hash": instance_hash}
StartFailedResult(h) == [status |-> "error", instance_hash |-> h, crn_url |-> NoUrl]
\* {"status": "error", "error": ...}
ErrorResult == [status |-> "error", instance_hash |-> NoHash, crn_url |-> NoUrl]
\* {"status": "success", "instance_hash": ..., "crn_url": ...}
SuccessResultNoUrl(h, u) == [status |-> "success", instance_hash |-> h, crn_url |-> NoUrl]
SuccessResult(h, u) == [status |-> "success", instance_hash |-> h, crn_url |-> u]

\* the clock of the deployer process moves on
Advance(d) ==
    /\ mono + d <= MaxMono
    /\ mono' = mono + d
    /\ UNCHANGED <<crn_blacklist, added_at, ci, poolVars, allocVars, agentVars>>

\* crns = await self.get_available_crns(): the list is served, or the fetch fails
GetAvailableCrns(served) ==
    /\ ci.pc = "idle"
    /\ IF served
       THEN /\ crn_blacklist' = Pruned(crn_blacklist, mono)
            /\ ci' = [ci EXCEPT !.pc = "listed",
                                !.crns = AvailableCrns(Directory, crn_blacklist, mono)]
       ELSE /\ crn_blacklist' = crn_blacklist
            /\ ci' = [ci EXCEPT !.pc = "listed", !.crns = <<>>]
    /\ UNCHANGED <<mono, added_at, poolVars, allocVars, agentVars>>

\* if not crns: return error; candidates = crns[:5]
TakeCandidates ==
    /\ ci.pc = "listed"
    /\ IF ci.crns = <<>>
       THEN ci' = [ci EXCEPT !.pc = "done", !.result = ErrorResult]
       ELSE ci' = [ci EXCEPT !.pc = "probe", !.k = 1,
                             !.candidates = SubSeq(ci.crns, 1, Min(MaxCandidates, Len(ci.crns)))]
    /\ UNCHANGED <<mono, crn_blacklist, added_at, poolVars, allocVars, agentVars>>

\* one round of the probe loop: the GET answers below 500, answers 5xx, or raises
Probe(outcome) ==
    /\ ci.pc = "probe"
    /\ LET candidate == ci.candidates[ci.k]
           url == NormalizeUrl(candidate.url)
           exhausted == ci.k = Len(ci.candidates)
       IN  CASE outcome = "ok" ->
                  /\ ci' = [ci EXCEPT !.pc = "create", !.selected = candidate.hash,
                                      !.crn_url = url]
                  /\ UNCHANGED <<crn_blacklist, added_at>>
             [] outcome = "5xx" ->
                  /\ ci' = IF exhausted
                           THEN [ci EXCEPT !.pc = "done", !.result = ErrorResult]
                           ELSE [ci EXCEPT !.k = ci.k + 1]
                  /\ UNCHANGED <<crn_blacklist, added_at>>
             [] outcome = "exception" ->
                  /\ crn_blacklist' = BlacklistCrn(crn_blacklist, mono, url)
                  /\ added_at' = [added_at EXCEPT ![url] = mono]
                  /\ ci' = IF exhausted
                           THEN [ci EXCEPT !.pc = "done", !.result = ErrorResult]
                           ELSE [ci EXCEPT !.k = ci.k + 1]
    /\ UNCHANGED <<mono, poolVars, allocVars, agentVars>>

\* client.create_instance(...): the message is created, or the call raises
CreateMessage(ok) ==
    /\ ci.pc = "create"
    /\ IF ok
       THEN /\ ci' = [ci EXCEPT !.pc = "verify", !.attempt = 0,
                                !.instance_hash = ItemHash(ci.selected)]
            /\ UNCHANGED <<crn_blacklist, added_at>>
       ELSE /\ crn_blacklist' = BlacklistCrn(crn_blacklist, mono, ci.crn_url)
            /\ added_at' = [added_at EXCEPT ![ci.crn_url] = mono]
            /\ ci' = [ci EXCEPT !.pc = "done", !.result = ErrorResult]
    /\ UNCHANGED <<mono, poolVars, allocVars, agentVars>>

\* one round of the verification loop: sleep(5), then the message is found or not
VerifyMessage(found) ==
    /\ ci.pc = "verify"
    /\ ci' = IF found \/ ci.attempt + 1 = VerifyAttempts
             THEN [ci EXCEPT !.pc = "propagate", !.attempt = 0]
             ELSE [ci EXCEPT !.attempt = ci.attempt + 1]
    /\ UNCHANGED <<mono, crn_blacklist, added_at, poolVars, allocVars, agentVars>>

\* await asyncio.sleep(5): additional propagation time
Propagate ==
    /\ ci.pc = "propagate"
    /\ ci' = [ci EXCEPT !.pc = "start"]
    /\ UNCHANGED <<mono, crn_blacklist, added_at, poolVars, allocVars, agentVars>>

\* one start notification: status 200, another status, a timeout or an exception;
\* after the last failed one the node is blacklisted and the error returned
StartInstance(outcome) ==
    /\ ci.pc = "start"
    /\ IF outcome = "200"
       THEN /\ ci' = [ci EXCEPT !.pc = "done",
                                !.result = SuccessResult(ci.instance_hash, ci.crn_url)]
            /\ UNCHANGED <<crn_blacklist, added_at>>
       ELSE IF ci.attempt < max_start_attempts - 1
       THEN /\ ci' = [ci EXCEPT !.attempt = ci.attempt + 1, !.failures = ci.failures + 1]
            /\ UNCHANGED <<crn_blacklist, added_at>>
       ELSE /\ crn_blacklist' = BlacklistCrn(crn_blacklist, mono, ci.crn_url)
            /\ added_at' = [added_at EXCEPT ![ci.crn_url] = mono]
            /\ ci' = [ci EXCEPT !.pc = "done", !.failures = ci.failures + 1,
                                !.result = IF ci.instance_hash # NoHash
                                           THEN StartFailedResult(ci.instance_hash)
                                           ELSE ErrorResult]
    /\ UNCHANGED <<mono, poolVars, allocVars, agentVars>>

\* the caller has the result; the next call may begin
CreateInstanceReturn ==
    /\ ci.pc = "done"
    /\ ci' = CiIdle
    /\ UNCHANGED <<mono, crn_blacklist, added_at, poolVars, allocVars, agentVars>>

create_instance ==
    \/ \E served \in BOOLEAN : GetAvailableCrns(served)
    \/ TakeCandidates
    \/ \E outcome \in {"ok", "5xx", "exception"} : Probe(outcome)
    \/ \E ok \in BOOLEAN : CreateMessage(ok)
    \/ \E found \in BOOLEAN : VerifyMessage(found)
    \/ Propagate
    \/ \E outcome \in {"200", "non200", "timeout", "exception"} : StartInstance(outcome)
    \/ CreateInstanceReturn

(***************************************************************************)
(* create_instance() of baal.services.deployer, the deployer handed to the *)
(* pool: one call at a time, a step per await.                             *)
(***************************************************************************)
\* min(5, len(crns))
MaxCrnAttempts == 5
\* c["url"] of the nodes get_available_crns can return, in the order of its sort
EligibleCrns ==
    << Url("https", "crn1", FALSE), Url("", "crn2", FALSE), Url("https", "crn3", FALSE),
       Url("http", "crn4", FALSE), Url("https", "crn5", FALSE), Url("https", "crn6", FALSE) >>

RECURSIVE NotBlacklisted(_, _, _)
\* [c for c in crns if not self._is_blacklisted(c["url"])]
NotBlacklisted(crns, bl, t) ==
    IF crns = <<>> THEN <<>>
    ELSE (IF BlacklistedIn(bl, t, Head(crns)) THEN <<>> ELSE <<Head(crns)>>)
         \o NotBlacklisted(Tail(crns), bl, t)

MnIdle ==
    [pc |-> "idle", crns |-> <<>>, crn_attempt |-> 0, instance_hash |-> NoHash,
     network |-> {}, notified |-> {},
     result |-> [status |-> "none", instance_hash |-> NoHash, crn_url |-> NoUrl]]

\* crn_url of the node of this round of the loop
MnCrnUrl(m) == NormalizeUrl(m.crns[m.crn_attempt + 1])
\* max_crn_attempts
max_crn_attempts(m) == Min(MaxCrnAttempts, Len(m.crns))

\* mutation of NeedsCreation: an instance is created for every node tried
NeedsCreationAlways(h) == TRUE
\* if instance_hash is None
NeedsCreation(h) == h = NoHash

\* the top of a round of the for loop: create first, or go to the start notification
MnRound(m) ==
    [m EXCEPT !.pc = IF NeedsCreation(m.instance_hash) THEN "create" ELSE "start"]

\* continue: the next node, or the statements after the loop
MnContinue(m) ==
    IF m.crn_attempt + 1 < max_crn_attempts(m)
    THEN MnRound([m EXCEPT !.crn_attempt = m.crn_attempt + 1])
    ELSE [m EXCEPT !.pc = "done",
                   !.result = IF m.instance_hash # NoHash
                              THEN StartFailedResult(m.instance_hash)
                              ELSE ErrorResult]

\* crns = await self.get_available_crns(): the first n nodes are listed, or the
\* fetch fails (n = 0); if not crns: return error
MnGetAvailableCrns(n) ==
    /\ mn.pc = "idle"
    /\ LET crns == NotBlacklisted(SubSeq(EligibleCrns, 1, n), Pruned(crn_blacklist, mono), mono)
       IN  /\ crn_blacklist' = IF n = 0 THEN crn_blacklist ELSE Pruned(crn_blacklist, mono)
           /\ mn' = IF crns = <<>>
                    THEN [MnIdle EXCEPT !.pc = "done", !.result = ErrorResult]
                    ELSE MnRound([MnIdle EXCEPT !.crns = crns])
    /\ UNCHANGED <<mono, added_at, ci, da, peer, pv, vm, prov, agents, rm, dc, poolVars, allocVars>>

\* client.create_instance(...) returns the message, the verification loop and the
\* propagation sleep pass; or the call raises and the outer except clause runs
MnCreateMessage(ok) ==
    /\ mn.pc = "create"
    /\ IF ok
       THEN /\ LET h == ItemHash(mn.crns[mn.crn_attempt + 1].host)
               IN mn' = [mn EXCEPT !.pc = "start", !.instance_hash = h,
                                   !.network = mn.network \cup {h}]
            /\ UNCHANGED <<crn_blacklist, added_at>>
       ELSE /\ crn_blacklist' = BlacklistCrn(crn_blacklist, mono, MnCrnUrl(mn))
            /\ added_at' = [added_at EXCEPT ![MnCrnUrl(mn)] = mono]
            /\ mn' = MnContinue(mn)
    /\ UNCHANGED <<mono, ci, da, peer, pv, vm, prov, agents, rm, dc, poolVars, allocVars>>

\* vm_client.start_instance(instance_hash) under wait_for(30): status 200, another
\* status, a timeout, or an exception
MnStartInstance(outcome) ==
    /\ mn.pc = "start"
    /\ LET m == [mn EXCEPT !.notified = mn.notified \cup {<<MnCrnUrl(mn), mn.instance_hash>>}]
       IN  IF outcome = "200"
           THEN /\ mn' = [m EXCEPT !.pc = "done",
                                   !.result = SuccessResult(m.instance_hash, MnCrnUrl(m))]
                /\ UNCHANGED <<crn_blacklist, added_at>>
           ELSE /\ crn_blacklist' = BlacklistCrn(crn_blacklist, mono, MnCrnUrl(m))
                /\ added_at' = [added_at EXCEPT ![MnCrnUrl(m)] = mono]
                /\ mn' = MnContinue(m)
    /\ UNCHANGED <<mono, ci, da, peer, pv, vm, prov, agents, rm, dc, poolVars, allocVars>>

\* the caller has the result; the next call may begin
MnReturn ==
    /\ mn.pc = "done"
    /\ mn' = MnIdle
    /\ UNCHANGED <<mono, crn_blacklist, added_at, ci, da, peer, pv, vm, prov, agents, rm, dc, poolVars, allocVars>>

ServicesCreateInstance ==
    \/ \E n \in 0..Len(EligibleCrns) : MnGetAvailableCrns(n)
    \/ \E ok \in BOOLEAN : MnCreateMessage(ok)
    \/ \E outcome \in {"200", "non200", "timeout", "exception"} : MnStartInstance(outcome)
    \/ MnReturn

(***************************************************************************)
(* wait_for_allocation() and _check_allocation(): one call at a time, a    *)
(* step per await.                                                         *)
(***************************************************************************)
\* retries passed by the caller: 0..MaxRetries
MaxRetries == 9
\* delay passed by the caller, in seconds
Delays == {1, 10}
\* attempt % 4 == 0: a start notification is sent again every fourth attempt
NotifyEvery == 4
\* the default ssh port of an allocation
DefaultSshPort == 22

\* None, as wait_for_allocation and _check_allocation return it
NoAllocation == [vm_ipv4 |-> "", ssh_port |-> 0]
\* {"vm_ipv4": ..., "ssh_port": ...}
Allocation(ip, port) == [vm_ipv4 |-> ip, ssh_port |-> port]
\* what one of the three lookups of a check can answer
Answers == {"ip", "no_ip", "not_200", "exception"}

\* _check_allocation(): the two execution lists of the node, then the scheduler;
\* the first lookup that knows an IP decides, an exception moves on to the next
CheckAllocation(v2, v1, scheduler) ==
    IF v2 = "ip" THEN Allocation("host_ipv4", DefaultSshPort)
    ELSE IF v1 = "ip" THEN Allocation("host_ipv4", DefaultSshPort)
    ELSE IF scheduler = "ip" THEN Allocation("vm_ipv4", DefaultSshPort)
    ELSE NoAllocation

\* mutation of NotifyRaises: an exception of the start notification escapes
NotifyRaisesException(outcome) == outcome = "exception"
\* except asyncio.TimeoutError / except Exception: nothing escapes the re-notify
NotifyRaises(outcome) == FALSE

\* mutation of NeedsNotify: the notification is also sent before the first check
NeedsNotifyFromStart(attempt) == attempt % NotifyEvery = 0
\* if attempt > 0 and attempt % 4 == 0
NeedsNotify(attempt) == attempt > 0 /\ attempt % NotifyEvery = 0
\* the top of `for attempt in range(retries)`: the next position of the call
LoopTop(attempt, retries) ==
    IF attempt >= retries THEN "done"
    ELSE IF NeedsNotify(attempt) THEN "notify"
    ELSE "check"

WfaIdle ==
    [pc |-> "idle", crn_url |-> NoUrl, retries |-> 0, delay |-> 0, attempt |-> 0,
     result |-> NoAllocation, raised |-> FALSE,
     \* history of the call
     checks |-> 0, found |-> 0, since |-> 0, spaced |-> TRUE, notify_failed |-> 0]

\* wait_for_allocation(instance_hash, crn_url, retries, delay) is called
WaitForAllocation(u, retries, delay) ==
    /\ wfa.pc = "idle"
    /\ wfa' = [wfa EXCEPT !.pc = LoopTop(0, retries), !.crn_url = NormalizeUrl(u),
                          !.retries = retries, !.delay = delay]
    /\ UNCHANGED <<poolVars, deplVars, agentVars>>

\* the start notification is sent again: it succeeds, times out or raises
ReNotify(outcome) ==
    /\ wfa.pc = "notify"
    /\ wfa' = IF NotifyRaises(outcome)
              THEN [wfa EXCEPT !.pc = "done", !.raised = TRUE,
                               !.notify_failed = wfa.notify_failed + 1]
              ELSE [wfa EXCEPT !.pc = "check",
                               !.notify_failed = wfa.notify_failed +
                                                 (IF outcome = "ok" THEN 0 ELSE 1)]
    /\ UNCHANGED <<poolVars, deplVars, agentVars>>

\* result = await self._check_allocation(...); if result: return result
Check(v2, v1, scheduler) ==
    /\ wfa.pc = "check"
    /\ LET result == CheckAllocation(v2, v1, scheduler)
           seen == [wfa EXCEPT !.checks = wfa.checks + 1, !.since = 0,
                               !.spaced = wfa.spaced /\ (wfa.checks = 0 \/ wfa.since = wfa.delay)]
       IN  wfa' = IF result # NoAllocation
                  THEN [seen EXCEPT !.pc = "done", !.result = result, !.found = wfa.found + 1]
                  ELSE [seen EXCEPT !.pc = "sleep"]
    /\ UNCHANGED <<poolVars, deplVars, agentVars>>

\* await asyncio.sleep(delay), then the next round or `return None`
Sleep ==
    /\ wfa.pc = "sleep"
    /\ wfa' = [wfa EXCEPT !.pc = LoopTop(wfa.attempt + 1, wfa.retries),
                          !.attempt = wfa.attempt + 1,
                          !.since = wfa.since + wfa.delay]
    /\ UNCHANGED <<poolVars, deplVars, agentVars>>

\* the caller has the result; the next call may begin
WaitForAllocationReturn ==
    /\ wfa.pc = "done"
    /\ wfa' = WfaIdle
    /\ UNCHANGED <<poolVars, deplVars, agentVars>>

wait_for_allocation ==
    \/ \E h \in Hosts, s \in Schemes, sl \in BOOLEAN, retries \in 0..MaxRetries, delay \in Delays :
            WaitForAllocation(Url(s, h, sl), retries, delay)
    \/ \E outcome \in {"ok", "timeout", "exception"} : ReNotify(outcome)
    \/ \E v2 \in Answers, v1 \in Answers, scheduler \in Answers : Check(v2, v1, scheduler)
    \/ Sleep
    \/ WaitForAllocationReturn

(***************************************************************************)
(* The pool and its callers.                                               *)
(***************************************************************************)
\* VMPool(db, deployer, min_size, max_size, ...) on a database without a vm_pool table
VMPoolInit(min, max) ==
    /\ min_size = min
    /\ max_size = max
    /\ store = [i \in Ids |-> NoRow]
    /\ nextId = 1
    /\ now = 1
    /\ booted = FALSE
    /\ holders = [i \in Ids |-> {}]
    /\ last = NoCall
    /\ VolatileInit

\* the time zone of the host: its offset from UTC
LocalTime(offset) == utc_offset = offset

\* the pool of the running bot, with min_size 2 and max_size 3, on a host in UTC
PoolInit == VMPoolInit(2, 3) /\ LocalTime(0)

DeployerInit ==
    /\ mono = 1
    /\ crn_blacklist = [u \in Urls |-> NULL]
    /\ added_at = [u \in Urls |-> NULL]
    /\ ci = CiIdle

AllocInit ==
    /\ wfa = WfaIdle

(***************************************************************************)
(* deploy_agent(), _ssh_run(), _ssh_pipe_tar()                             *)
(***************************************************************************)
\* for attempt in range(30): the SSH readiness wait
SshAttempts == 30
\* if attempt > 0 and attempt % 5 == 0: progress of the wait is reported
SshReportEvery == 5

\* exit codes _ssh_run and _ssh_pipe_tar answer: success, failure (also of an
\* exception), and 124 once the timeout of the call ran out
TimedOut == 124
Codes == {0, 1, TimedOut}

\* _notify: on_progress is called when there is one
NotifyUnguarded(d, step_key, status) ==
    IF d.on_progress
    THEN [d EXCEPT !.notes = Append(@, <<step_key, status>>)]
    ELSE [d EXCEPT !.pc = "returned",
                   !.result = [status |-> "raised", error |-> "TypeError",
                               code |-> 1, vm_url |-> ""]]
Notify(d, step_key, status) ==
    IF d.on_progress
    THEN [d EXCEPT !.notes = Append(@, <<step_key, status>>)]
    ELSE d

\* a remote operation is issued
Issue(d, op) == [d EXCEPT !.ops = Append(@, op)]
\* cmd = _safe_write_file_command(content, path); await self._ssh_run(..., cmd): the
\* command is issued and its exit code noted in writes
Written(d, file, code) == [Issue(d, file) EXCEPT !.writes = Append(@, <<file, code>>)]
\* steps.append({"step": ..., "success": ...})
StepAppend(d, step, success) == [d EXCEPT !.steps = Append(@, <<step, success>>)]
Goto(d, pc) == [d EXCEPT !.pc = pc]
\* return {"status": "error", "error": ..., "steps": steps}
ReturnError(d, error, code) ==
    [d EXCEPT !.pc = "returned",
              !.result = [status |-> "error", error |-> error, code |-> code, vm_url |-> ""]]
\* return {"status": "success", "vm_url": vm_url, "steps": steps}
ReturnSuccess(d) ==
    [d EXCEPT !.pc = "returned",
              !.result = [status |-> "success", error |-> "", code |-> 0,
                          vm_url |-> "https://subdomain.2n6.me"]]

\* deploy_agent is entered: steps = [], _notify("ssh", "active", ...)
DeployAgentEntered(on_progress, skills) ==
    Notify([pc |-> "ssh", on_progress |-> on_progress, skills |-> skills, attempt |-> 0,
            ops |-> <<>>, steps |-> <<>>, notes |-> <<>>, writes |-> <<>>,
            result |-> [status |-> "none", error |-> "", code |-> 0, vm_url |-> ""]],
           "ssh", "active")

\* one attempt of the readiness wait, "echo ready" answering code
SshReady(d, code) ==
    LET d1 == Issue(d, "echo ready") IN
    IF code = 0
    THEN Goto(Notify(StepAppend(Notify(d1, "ssh", "done"), "ssh_connected", TRUE),
                     "environment", "active"), "test_venv")
    ELSE LET d2 == IF d.attempt > 0 /\ d.attempt % SshReportEvery = 0
                   THEN Notify(d1, "ssh", "active") ELSE d1
         IN  IF d.attempt < SshAttempts - 1
             THEN [d2 EXCEPT !.attempt = @ + 1]
             ELSE ReturnError(Notify(d2, "ssh", "failed"), "SSH not reachable", code)

\* test -x /opt/baal-agent/bin/python3
TestVenv(d, code) ==
    LET d1 == Notify(Issue(d, "test -x python3"), "environment", "active") IN
    IF code = 0
    THEN Goto(StepAppend(d1, "install_deps", TRUE), "mkdir")
    ELSE Goto(d1, "install")

\* apt-get install ... && pip install ...
InstallDeps(d, code) ==
    LET d1 == StepAppend(Issue(d, "install_cmd"), "install_deps", code = 0) IN
    IF code # 0
    THEN ReturnError(Notify(d1, "environment", "failed"), "Dep install failed", code)
    ELSE Goto(Notify(d1, "environment", "active"), "mkdir")

\* _ssh_pipe_tar up to the end of wait_for(pipe_data(), timeout)
TarPipe(d, code) ==
    LET d1 == Issue(d, "tar | ssh tar") IN
    IF code # 0
    THEN ReturnError(Notify(d1, "environment", "failed"), "Failed to deploy agent code", code)
    ELSE Goto(d1, "tar_wait")

\* await ssh_proc.wait(), await tar_proc.wait(), and the exit codes
TarWait(d, code) ==
    IF code # 0
    THEN ReturnError(Notify(d, "environment", "failed"), "Failed to deploy agent code", code)
    ELSE Goto(d, "copy_memory")

\* _deploy_skills, or the copy of the bundled skills
Skills(d) ==
    Goto(StepAppend(Issue(d, IF d.skills THEN "_deploy_skills" ELSE "cp skills"),
                    "write_agent_code", TRUE), "pip")

\* pip install python-multipart, then _notify("environment", "active", ...)
PipInstall(d) == Goto(Notify(Issue(d, "pip install"), "environment", "active"), "write_env")

\* the .env file is written
WriteEnv(d, code) ==
    Goto(Notify(Notify(StepAppend(Written(d, "write .env", code), "write_env", code = 0),
                       "environment", "done"), "service", "active"), "write_service")

\* mutation of StartAgent: a failed service start is recorded and passed over
StartAgentIgnored(d, code) ==
    Goto(Notify(StepAppend(Issue(d, "systemctl start baal-agent"), "start_agent", code = 0),
                "service", "active"), "lookup")
\* systemctl daemon-reload && enable && start
StartAgent(d, code) ==
    LET d1 == StepAppend(Issue(d, "systemctl start baal-agent"), "start_agent", code = 0) IN
    IF code # 0
    THEN ReturnError(Notify(d1, "service", "failed"), "Service start failed", code)
    ELSE Goto(Notify(d1, "service", "active"), "lookup")

\* lookup_subdomain: a subdomain (code 0) or None
\* mutation of Lookup: the failed lookup is not reported
LookupUnreported(d, code) ==
    LET d1 == Issue(d, "lookup_subdomain") IN
    IF code # 0
    THEN ReturnError(d1, "Could not resolve 2n6.me subdomain", 1)
    ELSE Goto(Notify(d1, "service", "active"), "which_caddy")

Lookup(d, code) ==
    LET d1 == Issue(d, "lookup_subdomain") IN
    IF code # 0
    THEN ReturnError(Notify(d1, "service", "failed"), "Could not resolve 2n6.me subdomain", 1)
    ELSE Goto(Notify(d1, "service", "active"), "which_caddy")

\* which caddy
WhichCaddy(d, code) ==
    LET d1 == Issue(d, "which caddy") IN
    IF code # 0
    THEN Goto(Notify(d1, "service", "active"), "caddy_install")
    ELSE Goto(d1, "caddyfile")

CaddyInstall(d, code) ==
    LET d1 == Issue(d, "caddy_install") IN
    IF code # 0
    THEN ReturnError(Notify(d1, "service", "failed"), "Caddy install failed", code)
    ELSE Goto(d1, "caddyfile")

\* systemctl stop caddy; systemctl enable caddy && systemctl start caddy
CaddyStart(d, code) ==
    LET d1 == StepAppend(Issue(d, "systemctl start caddy"), "caddy_proxy", code = 0) IN
    IF code # 0
    THEN ReturnError(Notify(d1, "service", "failed"), "Caddy start failed", code)
    ELSE ReturnSuccess(Notify(d1, "service", "done"))

\* deploy_agent from one await to the next, the awaited operation answering code
DeployAgentStep(d, code) ==
    CASE d.pc = "ssh" -> SshReady(d, code)
      [] d.pc = "test_venv" -> TestVenv(d, code)
      [] d.pc = "install" -> InstallDeps(d, code)
      [] d.pc = "mkdir" -> Goto(Issue(d, "mkdir -p"), "tar_pipe")
      [] d.pc = "tar_pipe" -> TarPipe(d, code)
      [] d.pc = "tar_wait" -> TarWait(d, code)
      [] d.pc = "copy_memory" -> Goto(Issue(d, "cp memory"), "skills")
      [] d.pc = "skills" -> Skills(d)
      [] d.pc = "pip" -> PipInstall(d)
      [] d.pc = "write_env" -> WriteEnv(d, code)
      [] d.pc = "write_service" ->
            Goto(Written(d, "write baal-agent.service", code), "start_agent")
      [] d.pc = "start_agent" -> StartAgent(d, code)
      [] d.pc = "lookup" -> Lookup(d, code)
      [] d.pc = "which_caddy" -> WhichCaddy(d, code)
      [] d.pc = "caddy_install" -> CaddyInstall(d, code)
      [] d.pc = "caddyfile" -> Goto(Written(d, "write Caddyfile", code), "caddy_start")
      [] d.pc = "caddy_start" -> CaddyStart(d, code)
      [] OTHER -> d

\* the awaits of _ssh_pipe_tar that asyncio.wait_for does not cover
NoTimeout == {"tar_wait"}

\* what an awaited operation can answer. A peer that went silent answers nothing:
\* a call under wait_for (or an httpx timeout) then ends with its timeout, the archive
\* may still fit the buffers of the connection, and an await without timeout never ends
AnswersAt(pc) ==
    IF peer = "responds" THEN Codes
    ELSE IF pc \in NoTimeout THEN {}
    ELSE IF pc = "tar_pipe" THEN {0, TimedOut}
    ELSE {TimedOut}

(***************************************************************************)
(* prepare_vm(): one call at a time on one VM, a step per remote command.  *)
(***************************************************************************)
\* a VM as the network hands it out: nothing installed
BlankVm == [venv |-> FALSE, caddy_installed |-> FALSE, caddy_running |-> FALSE, dirs |-> FALSE]
\* no VM state recorded (no VM runs a proxy that is not installed)
NoVm == [venv |-> FALSE, caddy_installed |-> FALSE, caddy_running |-> TRUE, dirs |-> TRUE]

PvIdle ==
    [pc |-> "idle", attempt |-> 0, result |-> [status |-> "none", error |-> ""],
     \* history: a call returned success before, and the VM as that call left it
     prepared |-> FALSE, first |-> NoVm]

\* install_cmd on the VM: apt-get install python3 ..., python3 -m venv, pip install.
\* Exit code 0 leaves the venv in place; a failed or timed-out command got as far as
\* the venv (effect) or not
InstallCmd(v, code, effect) ==
    [v EXCEPT !.venv = v.venv \/ code = 0 \/ effect]
\* caddy_install on the VM: the package is installed with exit code 0, a failed
\* command got as far as that or not; the package's service is started by the
\* installation or not (effect)
CaddyInstallCmd(v, code, installed, effect) ==
    LET there == v.caddy_installed \/ code = 0 \/ installed
    IN  [v EXCEPT !.caddy_installed = there,
                  !.caddy_running = v.caddy_running \/ (there /\ effect)]
\* systemctl stop caddy: exit code 0 leaves it stopped; a failed or timed-out
\* command stopped it (effect) or not
StopCaddyCmd(v, code, effect) ==
    [v EXCEPT !.caddy_running = v.caddy_running /\ ~(code = 0 \/ effect)]
\* mkdir -p of the agent directories
MkdirCmd(v, code, effect) ==
    [v EXCEPT !.dirs = v.dirs \/ code = 0 \/ effect]

\* return {"status": "error", "error": ...}
PvError(error) == [pv EXCEPT !.pc = "returned", !.result = [status |-> "error", error |-> error]]

\* prepare_vm(vm_ip, ssh_port) is called
PrepareVmCalled ==
    /\ pv.pc = "idle"
    /\ pv' = [pv EXCEPT !.pc = "ssh", !.attempt = 0,
                        !.result = [status |-> "none", error |-> ""]]
    /\ UNCHANGED <<vm, da, peer, mn, prov, agents, rm, dc, poolVars, deplVars, allocVars>>

\* one round of `for attempt in range(30)`: "echo ready" answers code
PvSshReady(code) ==
    /\ pv.pc = "ssh"
    /\ pv' = IF code = 0 THEN [pv EXCEPT !.pc = "install"]
             ELSE IF pv.attempt < SshAttempts - 1 THEN [pv EXCEPT !.attempt = pv.attempt + 1]
             ELSE PvError("SSH not reachable")
    /\ UNCHANGED <<vm, da, peer, mn, prov, agents, rm, dc, poolVars, deplVars, allocVars>>

\* code, _, stderr = await self._ssh_run(vm_ip, ssh_port, install_cmd, timeout=600)
PvInstall(code, effect) ==
    /\ pv.pc = "install"
    /\ vm' = InstallCmd(vm, code, effect)
    /\ pv' = IF code # 0 THEN PvError("Dep install failed")
             ELSE [pv EXCEPT !.pc = "caddy_install"]
    /\ UNCHANGED <<da, peer, mn, prov, agents, rm, dc, poolVars, deplVars, allocVars>>

\* code, _, stderr = await self._ssh_run(vm_ip, ssh_port, caddy_install, timeout=120)
PvCaddyInstall(code, installed, effect) ==
    /\ pv.pc = "caddy_install"
    /\ vm' = CaddyInstallCmd(vm, code, installed, effect)
    /\ pv' = IF code # 0 THEN PvError("Caddy install failed")
             ELSE [pv EXCEPT !.pc = "stop_caddy"]
    /\ UNCHANGED <<da, peer, mn, prov, agents, rm, dc, poolVars, deplVars, allocVars>>

\* await self._ssh_run(vm_ip, ssh_port, "systemctl stop caddy 2>/dev/null")
PvStopCaddy(code, effect) ==
    /\ pv.pc = "stop_caddy"
    /\ vm' = StopCaddyCmd(vm, code, effect)
    /\ pv' = [pv EXCEPT !.pc = "mkdir"]
    /\ UNCHANGED <<da, peer, mn, prov, agents, rm, dc, poolVars, deplVars, allocVars>>

\* await self._ssh_run(vm_ip, ssh_port, "mkdir -p ..."); return {"status": "success"}
PvMkdir(code, effect) ==
    /\ pv.pc = "mkdir"
    /\ vm' = MkdirCmd(vm, code, effect)
    /\ pv' = [pv EXCEPT !.pc = "returned", !.result = [status |-> "success", error |-> ""]]
    /\ UNCHANGED <<da, peer, mn, prov, agents, rm, dc, poolVars, deplVars, allocVars>>

\* the caller has the result; the next call on the same VM may begin
PrepareVmReturn ==
    /\ pv.pc = "returned"
    /\ pv' = [pv EXCEPT !.pc = "idle",
                        !.prepared = pv.prepared \/ pv.result.status = "success",
                        !.first = IF ~pv.prepared /\ pv.result.status = "success"
                                  THEN vm ELSE pv.first]
    /\ UNCHANGED <<vm, da, peer, mn, prov, agents, rm, dc, poolVars, deplVars, allocVars>>

prepare_vm ==
    \/ PrepareVmCalled
    \/ \E code \in Codes : PvSshReady(code)
    \/ \E code \in Codes, effect \in BOOLEAN : PvInstall(code, effect)
    \/ \E code \in Codes, installed, effect \in BOOLEAN : PvCaddyInstall(code, installed, effect)
    \/ \E code \in Codes, effect \in BOOLEAN : PvStopCaddy(code, effect)
    \/ \E code \in Codes, effect \in BOOLEAN : PvMkdir(code, effect)
    \/ PrepareVmReturn

\* both calls of deploy_agent go on, the remote operations answering the same
deploy_agent ==
    /\ \E on_progress \in BOOLEAN : da[on_progress].pc # "returned"
    /\ \A on_progress \in BOOLEAN :
          da[on_progress].pc # "returned" => AnswersAt(da[on_progress].pc) # {}
    /\ \E code \in Codes :
          /\ \A on_progress \in BOOLEAN :
                da[on_progress].pc # "returned" => code \in AnswersAt(da[on_progress].pc)
          /\ da' = [on_progress \in BOOLEAN |-> DeployAgentStep(da[on_progress], code)]
    /\ UNCHANGED <<peer, mn, pv, vm, prov, agents, rm, dc, poolVars, deplVars, allocVars>>

\* the VM stops answering: it crashed, or the network dropped its packets
PeerGoesSilent ==
    /\ peer = "responds"
    /\ peer' = "silent"
    /\ UNCHANGED <<da, mn, pv, vm, prov, agents, rm, dc, poolVars, deplVars, allocVars>>

(***************************************************************************)
(* deploy_agent_code(): the deployment to a VM prepared by prepare_vm.     *)
(***************************************************************************)
\* for attempt in range(3)
QuickSshAttempts == 3

DeployAgentCodeEntered(skills) ==
    [pc |-> "ssh", on_progress |-> FALSE, skills |-> skills, attempt |-> 0,
     ops |-> <<>>, steps |-> <<>>, notes |-> <<>>, writes |-> <<>>,
     result |-> [status |-> "none", error |-> "", code |-> 0, vm_url |-> ""]]

\* the quick SSH check: echo ready, three attempts five seconds apart
DcSshReady(d, code) ==
    LET d1 == Issue(d, "echo ready") IN
    IF code = 0 THEN Goto(StepAppend(d1, "ssh_connected", TRUE), "tar_pipe")
    ELSE IF d.attempt < QuickSshAttempts - 1 THEN [d1 EXCEPT !.attempt = @ + 1]
    ELSE ReturnError(d1, "SSH not reachable", code)

\* systemctl daemon-reload && systemctl enable baal-agent && systemctl restart baal-agent
DcStartAgent(d, code) ==
    LET d1 == StepAppend(Issue(d, "systemctl restart baal-agent"), "start_agent", code = 0) IN
    IF code # 0 THEN ReturnError(d1, "Service start failed", code)
    ELSE Goto(d1, "caddyfile")

\* systemctl stop caddy; systemctl enable caddy && systemctl start caddy
DcCaddyStart(d, code) ==
    LET d1 == StepAppend(Issue(d, "systemctl start caddy"), "caddy_start", code = 0) IN
    IF code # 0 THEN ReturnError(d1, "Caddy start failed", code)
    ELSE ReturnSuccess(d1)

DeployAgentCodeStep(d, code) ==
    CASE d.pc = "ssh" -> DcSshReady(d, code)
      [] d.pc = "tar_pipe" -> TarPipe(d, code)
      [] d.pc = "tar_wait" -> TarWait(d, code)
      [] d.pc = "copy_memory" -> Goto(Issue(d, "cp memory"), "skills")
      [] d.pc = "skills" -> Skills(d)
      [] d.pc = "pip" -> Goto(Issue(d, "pip install"), "write_env")
      [] d.pc = "write_env" ->
            Goto(StepAppend(Written(d, "write .env", code), "write_env", code = 0),
                 "write_service")
      [] d.pc = "write_service" ->
            Goto(Written(d, "write baal-agent.service", code), "start_agent")
      [] d.pc = "start_agent" -> DcStartAgent(d, code)
      [] d.pc = "caddyfile" -> Goto(Written(d, "write Caddyfile", code), "caddy_start")
      [] d.pc = "caddy_start" -> DcCaddyStart(d, code)
      [] OTHER -> d

(***************************************************************************)
(* remove(pool_id, destroy_vm), one step per awaited statement, and        *)
(* remove_by_instance(instance_hash).                                      *)
(***************************************************************************)
\* no remove() in progress; requested holds the ids of the rows whose instance the
\* deployer has been asked to destroy, by whether the call comes from _cleanup_stale
RmIdle ==
    [pc |-> "idle", id |-> NULL, destroy_vm |-> FALSE, by |-> "none", requested |-> {}]

\* SELECT instance_hash FROM vm_pool WHERE id = ?
RemoveSelectBy(by, i, destroy_vm) ==
    /\ booted
    /\ rm.pc = "idle"
    /\ rm' = [rm EXCEPT !.id = i, !.destroy_vm = destroy_vm, !.by = by,
                        !.pc = IF Exists(i) /\ destroy_vm THEN "destroy" ELSE "delete"]
    /\ last' = NoCall
    /\ UNCHANGED <<store, nextId, now, booted, callerVars, holders, replVars, deplVars, allocVars, confVars, da, peer, mn, pv, vm, prov, agents, dc>>

\* _cleanup_stale: the SELECT of the stale warm rows, then remove(row["id"],
\* destroy_vm=True) for one of them
CleanupRemove(i) ==
    /\ rpc = "cleanup"
    /\ i \in StaleWarm
    /\ RemoveSelectBy("cleanup", i, TRUE)

\* remove(pool_id, destroy_vm) called with any id
RemoveSelect(i, destroy_vm) == RemoveSelectBy("caller", i, destroy_vm)

\* the remainder of _cleanup_stale once its loop over the stale warm rows is done
CleanupRemainder ==
    /\ StaleWarm = {}
    /\ ~(rm.pc # "idle" /\ rm.by = "cleanup")
    /\ CleanupStale

\* await self.deployer.destroy_instance(row["instance_hash"]), exceptions logged
RemoveDestroy ==
    /\ rm.pc = "destroy"
    /\ rm' = [rm EXCEPT !.requested = @ \cup {rm.id}, !.pc = "delete"]
    /\ last' = NoCall
    /\ UNCHANGED <<store, nextId, now, booted, callerVars, holders, replVars, deplVars, allocVars, confVars, da, peer, mn, pv, vm, prov, agents, dc>>

\* DELETE FROM vm_pool WHERE id = ?; commit
RemoveDelete ==
    /\ rm.pc = "delete"
    /\ remove(rm.id)
    /\ rm' = [RmIdle EXCEPT !.requested = rm.requested]
    /\ last' = NoCall
    /\ UNCHANGED <<nextId, now, booted, callerVars, replVars, deplVars, allocVars, confVars, da, peer, mn, pv, vm, prov, agents, dc>>

\* remove_by_instance: DELETE FROM vm_pool WHERE instance_hash = ?; commit
remove_by_instance(h) ==
    /\ booted
    /\ store' = [i \in Ids |-> IF Exists(i) /\ store[i].instance_hash = h
                               THEN NoRow ELSE store[i]]
    /\ last' = NoCall
    /\ UNCHANGED <<nextId, now, booted, callerVars, holders, replVars, deplVars, allocVars, confVars, agentVars>>

AgentInit ==
    /\ da = [on_progress \in BOOLEAN |-> DeployAgentEntered(on_progress, FALSE)]
    /\ peer = "responds"
    /\ mn = MnIdle
    /\ pv = PvIdle
    /\ vm = BlankVm
    /\ prov = ProvIdle(PrepareVmParameters)
    /\ agents = [f \in Flows |-> FlowIdle]
    /\ rm = RmIdle
    /\ dc = DeployAgentCodeEntered(FALSE)

Init == PoolInit /\ DeployerInit /\ AllocInit /\ AgentInit

\* get_stats raises in _replenish_once (a database error): the except clause of
\* _replenish_loop logs it and the loop sleeps; _cleanup_stale is skipped
ReplenishRaise ==
    /\ booted
    /\ rpc = "sleep"
    /\ rpc' = "sleep"
    /\ last' = [op |-> "replenish_failed", id |-> NULL, was |-> "none", destroyed |-> {}]
    /\ UNCHANGED <<store, nextId, now, booted, lock, cpc, csel, cvm, holders, rpending, rtasks, deplVars, allocVars, confVars, agentVars>>

Replenisher ==
    \/ ReplenishCheck
    \/ ProvisionInsert
    \/ \E i \in Ids : ProvisionSucceed(i)
    \/ \E i \in Ids : ProvisionFail(i)
    \/ ReplenishReturn
    \/ CleanupStale

Deployment(c) ==
    \/ ClaimAcquire(c)
    \/ ClaimEmpty(c)
    \/ ClaimSelect(c)
    \/ ClaimUpdate(c)
    \/ DeploySucceed(c)
    \/ DeployFail(c)

\* asyncio.sleep(replenish_interval) and the awaits of the loop let d units pass
Elapse(d) ==
    /\ now + d <= MaxWall
    /\ now' = now + d
    /\ UNCHANGED <<store, nextId, booted, lock, cpc, csel, cvm, holders,
                   rpc, rpending, rtasks, deplVars, allocVars, confVars, agentVars>>
    /\ last' = NoCall

\* the running bot: concurrent /create deployments and the background loop
Next ==
    \/ Initialize
    \/ Tick
    \/ \E c \in Callers : Deployment(c)
    \/ Replenisher

Spec == Init /\ [][Next]_vars

\* the bot restarted at any moment, one deployment at a time
NextRecover ==
    \/ Initialize
    \/ Crash
    \/ Tick
    \/ Deployment(1)
    \/ Replenisher

SpecRecover == Init /\ [][NextRecover]_vars

\* the running bot with mark_deployed() and remove() also called directly, with
\* any id, at one instant
\* what destroy_instance does when remove() calls it: it answers success, answers
\* an error status, or raises
DestroyOutcomes == {"success", "error", "raise"}

\* if row and destroy_vm: the deployer is asked to destroy the instance
DestroyRequested(pool_id, destroy_vm) == Exists(pool_id) /\ destroy_vm

\* "none" when destroy_instance is not called
OutcomesOf(pool_id, destroy_vm) ==
    IF DestroyRequested(pool_id, destroy_vm) THEN DestroyOutcomes ELSE {"none"}

\* except Exception around destroy_instance: the failure is logged, remove() goes on
DestroyCaughtUnlessRaised(outcome) == outcome # "raise"
DestroyCaught(outcome) == TRUE

\* remove(pool_id, destroy_vm) called with any id
RemoveVm(i, destroy_vm, outcome) ==
    /\ booted
    /\ IF DestroyRequested(i, destroy_vm) => DestroyCaught(outcome)
       THEN remove(i)
       ELSE UNCHANGED <<store, holders>>
    /\ last' = [op |-> "remove", id |-> i,
                was |-> IF destroy_vm THEN outcome ELSE "keep",
                destroyed |-> IF DestroyRequested(i, destroy_vm) THEN {i} ELSE {}]
    /\ UNCHANGED <<nextId, now, booted, callerVars, replVars, deplVars, allocVars, confVars, agentVars>>

\* remove() called with any id and either value of destroy_vm, beside one
\* deployment at a time and the background loop
NextRemove ==
    \/ Initialize
    \/ Deployment(1)
    \/ Replenisher
    \/ \E i \in Ids, destroy_vm \in BOOLEAN :
          \E outcome \in OutcomesOf(i, destroy_vm) : RemoveVm(i, destroy_vm, outcome)

NextApi ==
    \/ Initialize
    \/ \E c \in Callers : Deployment(c)
    \/ Replenisher
    \/ \E i \in Ids : ApiMarkDeployed(i, 1)
    \/ \E i \in Ids : ApiRemove(i)

SpecApi == Init /\ [][NextApi]_vars

\* the background loop, its passes failing or not, beside one deployment at a time
NextLoop ==
    \/ Initialize
    \/ Tick
    \/ Deployment(1)
    \/ Replenisher
    \/ ReplenishRaise

SpecLoop == Init /\ [][NextLoop]_vars

SpecRemove == Init /\ [][NextRemove]_vars

\* release() called directly, with any id, beside one deployment at a time
NextRelease ==
    \/ Initialize
    \/ Tick
    \/ Deployment(1)
    \/ Replenisher
    \/ \E i \in Ids : ApiRelease(i)

SpecRelease == Init /\ [][NextRelease]_vars

\* the background loop scheduled fairly, provisioning attempts that succeed, and
\* deployments that succeed
ReplenisherOk ==
    \/ ReplenishCheck
    \/ ProvisionInsert
    \/ \E i \in Ids : ProvisionSucceed(i)
    \/ ReplenishReturn
    \/ CleanupStale

NextLive ==
    \/ Initialize
    \/ ClaimAcquire(1)
    \/ ClaimEmpty(1)
    \/ ClaimSelect(1)
    \/ ClaimUpdate(1)
    \/ DeploySucceed(1)
    \/ ReplenisherOk

SpecLive ==
    /\ Init
    /\ [][NextLive]_vars
    /\ WF_vars(Initialize)
    /\ WF_vars(ReplenisherOk)
    /\ WF_vars(ClaimEmpty(1) \/ ClaimSelect(1) \/ ClaimUpdate(1) \/ DeploySucceed(1))

\* the replenisher alone on a pool of min_size 2 and max_size 4, every provisioning
\* attempt succeeding or failing at any of its steps
InitBatch == VMPoolInit(2, 4) /\ LocalTime(0) /\ DeployerInit /\ AllocInit /\ AgentInit

NextBatch ==
    \/ Initialize
    \/ Tick
    \/ ReplenishCheck
    \/ ProvisionInsert
    \/ \E i \in Ids : ProvisionSucceed(i)
    \/ \E i \in Ids, step \in ProvisionSteps : ProvisionFailAt(i, step)
    \/ ReplenishReturn
    \/ CleanupStale

SpecBatch == InitBatch /\ [][NextBatch]_vars

\* the same pool with the deployer of main.py behind it: an attempt ends when a
\* remote operation before the prepare_vm call fails, or at that call
NextWired ==
    \/ Initialize
    \/ Tick
    \/ ReplenishCheck
    \/ ProvisionInsert
    \/ \E i \in Ids : ProvisionRemoteOk(i)
    \/ \E i \in Ids, step \in ProvisionSteps \ {"prepare_vm"} : ProvisionFailAt(i, step)
    \/ ReplenishReturn
    \/ CleanupStale

SpecWired == InitBatch /\ [][NextWired]_vars

\* the pool with min_size 2 and max_size 2 behind a deployer whose prepare_vm takes
\* the two parameters of the AlephDeployer classes, or the three the pool passes;
\* a deployment claims VMs meanwhile, and the process is stopped and started again
InitProvision ==
    /\ VMPoolInit(2, 2) /\ LocalTime(0) /\ DeployerInit /\ AllocInit
    /\ da = [on_progress \in BOOLEAN |-> DeployAgentEntered(on_progress, FALSE)]
    /\ peer = "responds" /\ mn = MnIdle /\ pv = PvIdle /\ vm = BlankVm
    /\ \E parameters \in {PrepareVmParameters, PrepareVmArguments} :
          prov = ProvIdle(parameters)
    /\ agents = [f \in Flows |-> FlowIdle]
    /\ rm = RmIdle
    /\ dc = DeployAgentCodeEntered(FALSE)

NextProvision ==
    \/ Initialize
    \/ Crash
    \/ ReplenishOnceEntered
    \/ _provision_one
    \/ ReplenishReturn
    \/ CleanupStale
    \/ Deployment(1)

SpecProvision == InitProvision /\ [][NextProvision]_vars

\* one deployment claiming beside the background loop, whose cleanup pass removes the
\* stale warm rows statement by statement, and beside calls of remove() and
\* remove_by_instance() on the rows in the table; the clock jumps past max_age_hours
NextRace ==
    \/ Initialize
    \/ Elapse(max_age + 1)
    \/ Deployment(1)
    \/ ReplenishCheck
    \/ ProvisionInsert
    \/ (\E i \in Ids : ProvisionSucceed(i))
    \/ ReplenishReturn
    \/ (\E i \in Ids : CleanupRemove(i))
    \/ CleanupRemainder
    \/ (\E i \in Ids, destroy_vm \in BOOLEAN : Exists(i) /\ RemoveSelect(i, destroy_vm))
    \/ RemoveDestroy
    \/ RemoveDelete
    \/ (\E i \in Ids : Exists(i) /\ remove_by_instance(store[i].instance_hash))

InitRace == VMPoolInit(1, 1) /\ LocalTime(0) /\ DeployerInit /\ AllocInit /\ AgentInit

SpecRace == InitRace /\ [][NextRace]_vars

\* C35: when claim() returns a VM, the row of that VM exists with status claimed and
\* no destruction of its instance has been requested, whatever the cleanup pass,
\* remove() and remove_by_instance() do meanwhile.
C35_ClaimedRowIntact ==
    [][\A c \in Callers :
          (cpc[c] = "update" /\ cpc'[c] = "deploy") =>
              /\ store'[cvm'[c]] # NoRow
              /\ store'[cvm'[c]].status = "claimed"
              /\ cvm'[c] \notin rm'.requested]_vars

\* claim() has selected a warm row and is about to claim and return it, while the
\* cleanup pass, having asked for the destruction of its instance, is about to delete it
C35_WitnessCleanup ==
    /\ cpc[1] = "update"
    /\ store[csel[1]].status = "warm"
    /\ rm.by = "cleanup" /\ rm.pc = "delete" /\ rm.id = csel[1]
    /\ csel[1] \in rm.requested

\* claim() has returned a row that remove_by_instance deleted between its SELECT and
\* its UPDATE
C35_WitnessDeleted ==
    /\ cpc[1] = "deploy"
    /\ store[cvm[1]] = NoRow
    /\ rm = RmIdle
    /\ now = 1

\* the two flows side by side, nothing else running
SpecFlows == Init /\ [][NextFlows]_vars

\* C33: whenever create_instance returned an error result that carries an
\* instance_hash, the flow that called it ends with that hash on the agent record and
\* deployment status failed, in the bot flow and in the REST background flow.
C33_PartialHashStored ==
    \A f \in Flows :
        (/\ agents[f].pc \in {"ended", "repaired"}
         /\ agents[f].result.status = "error"
         /\ agents[f].result.instance_hash # NoHash)
        => /\ agents[f].instance_hash = agents[f].result.instance_hash
           /\ agents[f].deployment_status = "failed"

\* the part that holds: the bot flow stores the hash and /repair resumes with it
C33_BotStoresHash ==
    (/\ agents["bot"].pc \in {"ended", "repaired"}
     /\ agents["bot"].result.status = "error"
     /\ agents["bot"].result.instance_hash # NoHash)
    => /\ agents["bot"].instance_hash = agents["bot"].result.instance_hash
       /\ agents["bot"].deployment_status = "failed"
       /\ agents["bot"].repair # "no_instance_hash"

\* the bot flow ended on such an error and /repair resumed with the stored hash
C33_WitnessBot ==
    /\ agents["bot"].result = [status |-> "error", instance_hash |-> HashOf(2)]
    /\ agents["bot"].instance_hash = HashOf(2)
    /\ agents["bot"].repair = "resumed"

\* the REST flow ended on such an error with no hash on the agent record
C33_WitnessRest ==
    /\ agents["rest"].pc = "ended"
    /\ agents["rest"].result = [status |-> "error", instance_hash |-> HashOf(1)]
    /\ agents["rest"].instance_hash = NoHash
    /\ agents["rest"].deployment_status = "failed"

\* the attempts that end in the step: their task leaves the cycle, by returning, by
\* raising, or by the cancellation of the background task
AttemptEnds(i) == i \in rtasks /\ i \notin rtasks'
\* the instance created for attempt i is named by the row of i or its destruction
\* has been requested
Accounted(i) ==
    \/ store'[i] # NoRow /\ store'[i].instance_hash = prov'.instance[i]
    \/ last'.op \in {"cleanup", "remove"} /\ i \in last'.destroyed

\* C36: when a provisioning attempt that created an instance ends, the instance is
\* recorded by its hash in a pool row or its destruction has been requested.
C36_NoLeakedInstance ==
    [][\A i \in Ids :
         (AttemptEnds(i) /\ prov'.instance[i] # NoHash) => Accounted(i)]_vars

\* the part that holds: an attempt that ends with its row warm has its instance recorded
C36_RecordedOnSuccess ==
    [][\A i \in Ids :
         (AttemptEnds(i) /\ store'[i].status = "warm") =>
             store'[i].instance_hash = prov'.instance[i]]_vars

\* an attempt ended in failure after its instance was created: the row is failed and
\* still carries the placeholder
C36_WitnessLeak ==
    \E i \in Ids :
        /\ last = [op |-> "provision_failed", id |-> i, was |-> "wait_for_allocation",
                   destroyed |-> {}]
        /\ prov.instance[i] = HashOf(i)
        /\ store[i].status = "failed"
        /\ store[i].instance_hash = Pending

\* the background task was cancelled while an attempt with an instance was waiting:
\* the row is still provisioning, with the placeholder
C36_WitnessCancelled ==
    \E i \in Ids :
        /\ ~booted
        /\ prov.instance[i] = HashOf(i)
        /\ prov.pc[i] = "prepare_vm"
        /\ store[i].status = "provisioning"
        /\ store[i].instance_hash = Pending

\* _replenish_once returns to the loop: gather has returned and no exception is raised
ReplenishOnceReturns == rpc = "gather" /\ rpc' = "cleanup"

C38_Witness ==
    /\ rpc = "cleanup" /\ rtasks = {}
    /\ \E i, j \in prov.cycle : store[i].status = "warm" /\ store[j].status = "failed"

C34_OneDeploymentPerVm ==
    \A c, d \in Callers :
        (c # d /\ cpc[c] = "deploy" /\ cpc[d] = "deploy") => cvm[c] # cvm[d]

\* two deployments work on the VM of the same row, claimed by the second after the
\* cleanup pass released it
C34_WitnessShared ==
    \E c, d \in Callers :
        /\ c # d
        /\ cpc[c] = "deploy" /\ cpc[d] = "deploy"
        /\ cvm[c] = cvm[d]
        /\ store[cvm[c]].status = "claimed"
        /\ holders[cvm[c]] = {d}

\* the step keys of the progress events, in their order
StepKeys == <<"ssh", "environment", "service">>
KeyRank(key) == CHOOSE r \in 1..Len(StepKeys) : StepKeys[r] = key
\* the progress events deploy_agent has emitted so far
Events == da[TRUE].notes
FailedEvents == {k \in 1..Len(Events) : Events[k][2] = "failed"}

\* C40: the progress events of deploy_agent follow one protocol: the step keys appear
\* in the order ssh, environment, service; the first event of a key is 'active'; no
\* event of a later key is emitted before the earlier key's 'done'; a 'failed' event
\* is the last event and the result is then an error; every error result is preceded
\* by exactly one 'failed' event; a success result is preceded by ('service', 'done')
\* as the last event.
C40_ProgressProtocol ==
    /\ \A j, k \in 1..Len(Events) :
          j < k => KeyRank(Events[j][1]) <= KeyRank(Events[k][1])
    /\ \A k \in 1..Len(Events) :
          (\A j \in 1..(k - 1) : Events[j][1] # Events[k][1]) => Events[k][2] = "active"
    /\ \A k \in 1..Len(Events) : \A r \in 1..(KeyRank(Events[k][1]) - 1) :
          \E j \in 1..(k - 1) : Events[j] = <<StepKeys[r], "done">>
    /\ \A k \in FailedEvents :
          /\ k = Len(Events)
          /\ da[TRUE].pc = "returned" /\ da[TRUE].result.status = "error"
    /\ (da[TRUE].pc = "returned" /\ da[TRUE].result.status = "error")
          => Cardinality(FailedEvents) = 1
    /\ (da[TRUE].pc = "returned" /\ da[TRUE].result.status = "success")
          => Events[Len(Events)] = <<"service", "done">>

\* deploy_agent returned success after events of the three keys
C40_Witness ==
    /\ da[TRUE].pc = "returned" /\ da[TRUE].result.status = "success"
    /\ \A r \in 1..Len(StepKeys) : \E k \in 1..Len(Events) : Events[k][1] = StepKeys[r]
    /\ Events[Len(Events)] = <<"service", "done">>

\* deploy_agent returned an error after the subdomain lookup failed, reported as the
\* one 'failed' event
C40_WitnessFailed ==
    /\ da[TRUE].pc = "returned"
    /\ da[TRUE].result.error = "Could not resolve 2n6.me subdomain"
    /\ Events[Len(Events)] = <<"service", "failed">>
    /\ Cardinality(FailedEvents) = 1

\* C32: a row becomes warm only after prepare_vm of its VM returned success, and
\* every warm row carries the hash of the instance created for it, not the
\* placeholder 'pending'.
C32_WarmOnlyAfterPrepare ==
    [][\A i \in Ids :
         store'[i].status = "warm" =>
            /\ i \in prov.prepared
            /\ store'[i].instance_hash = prov.instance[i]
            /\ store'[i].instance_hash \notin {Pending, NoHash}]_vars

\* a provisioning row has just become warm, after its preparation succeeded
C32_Witness ==
    \E i \in Ids :
        /\ store[i].status = "warm"
        /\ store[i].instance_hash = HashOf(i)
        /\ i \in prov.prepared
        /\ prov.pc[i] = "update"
        /\ i \notin rtasks

\* preparation returned an error and the row is failed, never warm
C32_WitnessPrepareError ==
    \E i \in Ids :
        /\ last = [op |-> "provision_failed", id |-> i, was |-> "prepare_vm", destroyed |-> {}]
        /\ store[i].status = "failed"
        /\ i \notin prov.prepared

\* the same on a pool of min_size 3 and max_size 4: the first cycle has three
\* attempts to run
InitWide == VMPoolInit(3, 4) /\ LocalTime(0) /\ DeployerInit /\ AllocInit /\ AgentInit

SpecWide == InitWide /\ [][NextBatch]_vars

\* the background loop and one deployment at a time, create_instance answering any
\* of the item hashes
NextHash ==
    \/ Initialize
    \/ Tick
    \/ Deployment(1)
    \/ ReplenishCheck
    \/ ProvisionInsert
    \/ \E i \in Ids, h \in ItemHashes : ProvisionUpdate(i, h)
    \/ \E i \in Ids : ProvisionFail(i)
    \/ ReplenishReturn
    \/ CleanupStale

SpecHash == Init /\ [][NextHash]_vars

\* offsets from UTC of the hosts the bot may run on: one hour west, UTC, one hour east
TzOffsets == {0 - max_age, 0, max_age}

\* the pool running for hours on a host in any of these time zones
InitCleanup ==
    /\ VMPoolInit(2, 3)
    /\ \E offset \in TzOffsets : LocalTime(offset)
    /\ DeployerInit /\ AllocInit /\ AgentInit

NextCleanup ==
    \/ Initialize
    \/ \E d \in {1, max_age} : Elapse(d)
    \/ Replenisher

SpecCleanup == InitCleanup /\ [][NextCleanup]_vars

\* time passes while the deployment is outside claim() (inside, under the lock,
\* only its UPDATE reads the clock) and the loop is in its sleep or awaits its tasks
SweepElapse(d) ==
    /\ cpc[1] \in {"idle", "deploy"}
    /\ rpc \in {"sleep", "gather"}
    /\ Elapse(d)

\* a pool of one VM on the same hosts, with a deployment claiming, deploying
\* on and releasing pool VMs, so that rows of every status grow old
InitSweep ==
    /\ VMPoolInit(1, 1)
    /\ \E offset \in TzOffsets : LocalTime(offset)
    /\ DeployerInit /\ AllocInit /\ AgentInit

NextSweep ==
    \/ Initialize
    \/ \E d \in {1, ProvisioningMaxAge} : SweepElapse(d)
    \/ Replenisher
    \/ Deployment(1)

SpecSweep == InitSweep /\ [][NextSweep]_vars

\* a pool of one VM, a deployment that claims it and then succeeds, fails or never
\* ends, restarts of the process, and the background loop, whose passes may fail
NextReclaim ==
    \/ Initialize
    \/ Crash
    \/ Elapse(max_age \div 2)
    \/ Deployment(1)
    \/ Replenisher
    \/ ReplenishRaise

InitReclaim ==
    /\ VMPoolInit(1, 1)
    /\ \E offset \in TzOffsets : LocalTime(offset)
    /\ DeployerInit /\ AllocInit /\ AgentInit

\* the loop is scheduled fairly, the process is started again after a stop, and time
\* passes; nothing is assumed of the deployment
SpecReclaim ==
    /\ InitReclaim
    /\ [][NextReclaim]_vars
    /\ WF_vars(Initialize)
    /\ WF_vars(Replenisher)
    /\ WF_vars(Elapse(max_age \div 2))

\* the clock of the model can pass the bound that the cleanup pass of this host puts
\* on the claim of row i
CanAge(i) == store[i].claimed_at + ClaimedMaxAge + utc_offset + (max_age \div 2) <= MaxWall

\* C37: every claimed row eventually leaves status claimed, by mark_deployed, by a
\* release or by removal, whether the claiming deployment succeeds, fails, raises or
\* never finishes, when the background loop is scheduled fairly.
C37_ClaimedLeaves ==
    \A i \in Ids :
        (store[i].status = "claimed" /\ CanAge(i)) ~> (store[i].status # "claimed")

\* the deployment is still at work on a row that the cleanup pass has released
C37_Witness ==
    /\ cpc[1] = "deploy"
    /\ store[cvm[1]].status = "warm"
    /\ holders[cvm[1]] = {}
    /\ rpc = "sleep"
    /\ booted

\* the provisioner: create_instance calls one after another while time passes
NextDeployer ==
    \/ \E d \in Steps : Advance(d)
    \/ create_instance

SpecDeployer == Init /\ [][NextDeployer]_vars

\* the provisioner of the pool: its create_instance calls one after another, the
\* clock observed a blacklist lifetime apart
NextMulti ==
    \/ Advance(CRN_BLACKLIST_TTL)
    \/ ServicesCreateInstance

SpecMulti == Init /\ [][NextMulti]_vars

\* the allocation poller: wait_for_allocation calls one after another
NextAlloc == wait_for_allocation

SpecAlloc == Init /\ [][NextAlloc]_vars

\* deploy_agent called with and without on_progress, with and without skills, the
\* remote operations answering anything, the peer going silent at any moment
InitAgent ==
    /\ PoolInit /\ DeployerInit /\ AllocInit
    /\ \E skills \in BOOLEAN :
          da = [on_progress \in BOOLEAN |-> DeployAgentEntered(on_progress, skills)]
    /\ peer = "responds"
    /\ mn = MnIdle
    /\ pv = PvIdle
    /\ vm = BlankVm
    /\ prov = ProvIdle(PrepareVmParameters)
    /\ agents = [f \in Flows |-> FlowIdle]
    /\ rm = RmIdle
    /\ dc = DeployAgentCodeEntered(FALSE)

NextAgent == deploy_agent \/ PeerGoesSilent

SpecAgent == InitAgent /\ [][NextAgent]_vars

\* prepare_vm called again and again on one VM, the remote commands answering anything
NextPrepare == prepare_vm

SpecPrepare == Init /\ [][NextPrepare]_vars

\* the event loop runs deploy_agent whenever it can go on
SpecAgentLive == SpecAgent /\ WF_vars(deploy_agent)

\* one step of deploy_agent_code: the command at dc.pc answers with an exit code
deploy_agent_code ==
    /\ dc.pc # "returned"
    /\ \E code \in AnswersAt(dc.pc) : dc' = DeployAgentCodeStep(dc, code)
    /\ UNCHANGED <<da, peer, mn, pv, vm, prov, agents, rm, poolVars, deplVars, allocVars>>

\* no step of deploy_agent, of deploy_agent_code, has been taken
DeployAgentNotCalled ==
    da = [on_progress \in BOOLEAN |-> DeployAgentEntered(on_progress, da[TRUE].skills)]
DeployAgentCodeNotCalled == dc = DeployAgentCodeEntered(dc.skills)

\* a deployment runs one of the two: deploy_agent on a fresh VM, or deploy_agent_code
\* on a VM of the pool
NextWrites ==
    \/ DeployAgentCodeNotCalled /\ deploy_agent
    \/ DeployAgentNotCalled /\ deploy_agent_code
    \/ PeerGoesSilent

SpecWrites == InitAgent /\ [][NextWrites]_vars

\* the calls that have returned success
ReturnedSuccess(d) == d.pc = "returned" /\ d.result.status = "success"
\* every file write the call issued ended with exit code 0
AllWritesSucceeded(d) == \A k \in 1..Len(d.writes) : d.writes[k][2] = 0

\* C39: deploy_agent and deploy_agent_code return status success only if every file
\* write they issued succeeded: the .env file, the service unit file and the
\* reverse-proxy config file.
C39_SuccessMeansWritten ==
    \A d \in {da[TRUE], da[FALSE], dc} : ReturnedSuccess(d) => AllWritesSucceeded(d)

\* the part that holds: a success result means the three writes were issued and the
\* service start and the proxy start ended with exit code 0
C39_SuccessMeansStarted ==
    \A d \in {da[TRUE], da[FALSE], dc} :
        ReturnedSuccess(d) =>
            /\ Len(d.writes) = 3
            /\ \A k \in 1..Len(d.steps) :
                  d.steps[k][1] \in {"start_agent", "caddy_proxy", "caddy_start"}
                      => d.steps[k][2]

\* deploy_agent returned success although no file was written
C39_WitnessDeployAgent ==
    /\ ReturnedSuccess(da[FALSE])
    /\ da[FALSE].writes = <<<<"write .env", 1>>, <<"write baal-agent.service", 1>>,
                            <<"write Caddyfile", 1>>>>

\* deploy_agent_code returned success although the Caddyfile write timed out
C39_WitnessDeployAgentCode ==
    /\ ReturnedSuccess(dc)
    /\ dc.writes = <<<<"write .env", 0>>, <<"write baal-agent.service", 0>>,
                     <<"write Caddyfile", TimedOut>>>>

(***************************************************************************)
(* Properties of the pool.                                                 *)
(***************************************************************************)
WarmOrProvisioning == WarmCount + ProvisioningCount

\* C1: claim() is atomic: the SELECT of a claim() only ever fetches a row that
\* is warm, and when a claim() returns a row, that row has been returned to no
\* other claim() since it last became warm.
C1_ClaimAtomic ==
    [][\A c \in Callers :
          /\ (cpc[c] = "select" /\ cpc'[c] = "update")
                => store[csel'[c]].status = "warm"
          /\ (cpc[c] = "update" /\ cpc'[c] = "deploy")
                => holders[csel[c]] = {}
      ]_vars

\* two claim() calls have returned, each its own row
C1_Witness ==
    \E c, d \in Callers :
        /\ c # d
        /\ cpc[c] = "deploy" /\ cpc[d] = "deploy"
        /\ cvm[c] # cvm[d]
        /\ holders[cvm[c]] = {c} /\ holders[cvm[d]] = {d}

\* C2: claim() returns None exactly when its SELECT finds no warm row; otherwise
\* it fetches a warm row of oldest created_at and returns it, its UPDATE makes
\* that row (while it is in the table) claimed with claimed_at = now, and
\* changes no other row.
C2_ClaimContract ==
    [][\A c \in Callers :
          /\ (cpc[c] = "select" /\ cpc'[c] = "idle")
                => WithStatus("warm") = {} /\ cvm'[c] = NULL /\ store' = store
          /\ (cpc[c] = "select" /\ cpc'[c] = "update")
                => /\ store[csel'[c]].status = "warm"
                   /\ \A j \in WithStatus("warm") :
                         store[csel'[c]].created_at <= store[j].created_at
                   /\ store' = store
          /\ (cpc[c] = "update" /\ cpc'[c] = "deploy")
                => /\ cvm'[c] = csel[c]
                   /\ now # NULL
                   /\ store' = IF Exists(csel[c])
                               THEN [store EXCEPT ![csel[c]] =
                                        [@ EXCEPT !.status = "claimed", !.claimed_at = now]]
                               ELSE store
      ]_vars

\* a claim() has returned the older of two warm rows
C2_Witness ==
    \E c \in Callers : \E j \in WithStatus("warm") :
        /\ cpc[c] = "deploy"
        /\ store[cvm[c]].status = "claimed"
        /\ store[cvm[c]].claimed_at # NULL
        /\ store[cvm[c]].created_at < store[j].created_at

\* C3: release(id) changes nothing in the table when the row of that id is
\* provisioning, warm, deployed or failed or does not exist; on a claimed row
\* it sets status warm and clears claimed_at and agent_id, and nothing else.
C3_ReleaseContract ==
    [][last'.op = "release" =>
          IF store[last'.id].status = "claimed"
          THEN store' = [store EXCEPT ![last'.id] =
                            [@ EXCEPT !.status = "warm", !.claimed_at = NULL,
                                      !.agent_id = NULL]]
          ELSE store' = store
      ]_vars

\* release() was called on a provisioning row, which still is provisioning
C3_Witness ==
    /\ last.op = "release"
    /\ last.was = "provisioning"
    /\ store[last.id].status = "provisioning"

\* C4: when _replenish_once completes, warm + provisioning <= max_size.
C4_ReplenishBound ==
    [][(rpc # "cleanup" /\ rpc' = "cleanup") => WarmOrProvisioning' <= max_size]_vars

\* a cycle that provisioned has completed with max_size warm rows
C4_Witness ==
    /\ rpc = "cleanup"
    /\ nextId > 1
    /\ WarmCount = max_size

\* C5: initialize() turns every claimed row into a warm row with claimed_at and
\* agent_id cleared, deletes every provisioning row, leaves the warm, deployed
\* and failed rows as they are, and so leaves no claimed and no provisioning row.
C5_StartupRecovery ==
    [][(~booted /\ booted') =>
          /\ \A i \in Ids :
                /\ store[i].status = "claimed"
                      => store'[i] = [store[i] EXCEPT !.status = "warm",
                                         !.claimed_at = NULL, !.agent_id = NULL]
                /\ store[i].status = "provisioning" => store'[i] = NoRow
                /\ store[i].status \in {"warm", "deployed", "failed", "none"}
                      => store'[i] = store[i]
          /\ \A i \in Ids : store'[i].status \notin {"claimed", "provisioning"}
      ]_vars

\* initialize() has run on a table with a claimed and a provisioning row
C5_Witness ==
    /\ last.op = "initialize"
    /\ last.id >= 1
    /\ last.was = "provisioning"
    /\ Count("claimed") = 0
    /\ Count("provisioning") = 0
    /\ Count("warm") >= 1

\* C6: whenever fewer than min_size rows are warm, eventually at least min_size
\* rows are warm.
C6_KeepsMinimumWarm ==
    [](booted /\ WarmCount < min_size => <>(WarmCount >= min_size))

(***************************************************************************)
(* Properties of the instance provisioner.                                 *)
(***************************************************************************)
\* C7: when create_instance has created the instance and its third start
\* notification fails too (non-200, timeout or exception), the call returns an
\* error that carries the created instance's non-empty hash, and the url of the
\* selected node is blacklisted at that moment.
C7_StartFailureKeepsHash ==
    [][(ci.pc = "start" /\ ci'.pc = "done" /\ ci'.failures = max_start_attempts)
        => /\ ci'.result.status = "error"
           /\ ci'.result.instance_hash = ItemHash(ci.selected)
           /\ ci'.result.instance_hash # NoHash
           /\ BlacklistedIn(crn_blacklist', mono', ci.crn_url)]_vars

\* create_instance has just returned after three failed start notifications
C7_Witness ==
    /\ ci.pc = "done"
    /\ ci.failures = max_start_attempts
    /\ ci.instance_hash # NoHash
    /\ ci.result.status = "error"

\* C9: an endpoint is reported blacklisted exactly while the clock is in
\* [t, t + CRN_BLACKLIST_TTL), t being the time of its last _blacklist_crn; from
\* t + CRN_BLACKLIST_TTL on it is not, and an endpoint never added never is.
C9_BlacklistTTL ==
    \A u \in Urls :
        IsBlacklisted(u) <=>
            (added_at[u] # NULL /\ added_at[u] <= mono /\ mono < added_at[u] + CRN_BLACKLIST_TTL)

\* the clock stands exactly at the expiry of an entry, another endpoint is
\* blacklisted one second before its expiry or was never added
C9_Witness ==
    /\ \E u \in Urls : added_at[u] # NULL /\ mono = added_at[u] + CRN_BLACKLIST_TTL
                                          /\ ~IsBlacklisted(u)
    /\ \E u \in Urls : added_at[u] = NULL /\ ~IsBlacklisted(u)

\* an endpoint one second before its expiry is still blacklisted
C9_WitnessBefore ==
    \E u \in Urls : added_at[u] # NULL /\ mono = added_at[u] + CRN_BLACKLIST_TTL - 1
                                       /\ IsBlacklisted(u)

\* the blacklist entry create_instance made for url u is still running
ActivelyBlacklisted(u) ==
    added_at[u] # NULL /\ mono < added_at[u] + CRN_BLACKLIST_TTL

\* C10: the list get_available_crns has just returned holds no node whose
\* endpoint, in the form create_instance passes to the blacklist, is blacklisted
\* with its TTL still running, and no node that fails the viability filter.
C10_NoBlacklistedCandidate ==
    ci.pc = "listed" =>
        \A k \in 1..Len(ci.crns) :
            /\ ~ActivelyBlacklisted(NormalizeUrl(ci.crns[k].url))
            /\ NodeOf(ci.crns[k].hash).qemu_support
            /\ NodeOf(ci.crns[k].hash).active
            /\ NodeOf(ci.crns[k].hash).score >= ScoreMin

\* the viability half of C10 alone
C10_OnlyViable ==
    ci.pc = "listed" =>
        \A k \in 1..Len(ci.crns) :
            /\ NodeOf(ci.crns[k].hash).qemu_support
            /\ NodeOf(ci.crns[k].hash).active
            /\ NodeOf(ci.crns[k].hash).score >= ScoreMin

\* the blacklist half of C10 for the endpoints listed with a scheme
C10_SchemedNotReturned ==
    ci.pc = "listed" =>
        \A k \in 1..Len(ci.crns) :
            StartsWithHttp(ci.crns[k].url) => ~ActivelyBlacklisted(NormalizeUrl(ci.crns[k].url))

(***************************************************************************)
(* Properties of the allocation poller.                                    *)
(***************************************************************************)
\* C8: a wait_for_allocation call in which no check found an IP ends, for every
\* retries >= 0, without an exception, with None as its result, after exactly
\* `retries` checks, each check after the first following the previous one by
\* one sleep of `delay`; a start notification that fails or times out on the
\* way does not change that.
C8_AllocationTimeout ==
    (wfa.pc = "done" /\ wfa.found = 0) =>
        /\ ~wfa.raised
        /\ wfa.result = NoAllocation
        /\ wfa.checks = wfa.retries
        /\ wfa.spaced

\* a call with enough retries for two re-notifications has timed out although
\* both re-notifications failed
C8_Witness ==
    /\ wfa.pc = "done"
    /\ wfa.found = 0
    /\ wfa.retries = 2 * NotifyEvery + 1
    /\ wfa.checks = wfa.retries
    /\ wfa.notify_failed = 2

\* a call with retries = 0 has timed out without a check
C8_WitnessZero ==
    wfa.pc = "done" /\ wfa.found = 0 /\ wfa.retries = 0 /\ wfa.checks = 0

\* the candidates are in descending order of composite score
C11_SortedDescending ==
    ci.pc = "listed" =>
        \A k \in 1..(Len(ci.crns) - 1) : ci.crns[k].composite >= ci.crns[k + 1].composite

\* C11: the list get_available_crns has just returned is in descending order of
\* composite score, and of two candidates with the same composite score the one
\* with the higher raw reputation score comes first.
C11_SortedTiesByReputation ==
    ci.pc = "listed" =>
        \A k \in 1..(Len(ci.crns) - 1) :
            \/ ci.crns[k].composite > ci.crns[k + 1].composite
            \/ /\ ci.crns[k].composite = ci.crns[k + 1].composite
               /\ ci.crns[k].score >= ci.crns[k + 1].score

(***************************************************************************)
(* Properties of a replenish batch.                                        *)
(***************************************************************************)
\* the first _replenish_once on the empty store of a pool with min_size 2 and
\* max_size 4 is gathering its tasks: ids 1 and 2 are the only ones it hands out
FirstBatch == rpc = "gather" /\ min_size = 2 /\ max_size = 4 /\ nextId + rpending = 3

\* C12: with min_size 2 and max_size 4 on an empty store, one cycle of the
\* replenisher decides to create exactly 2 VMs and inserts exactly 2 provisioning
\* rows, neither attempt waits for the other at the semaphore, an attempt in
\* which none of the four remote steps (creation, allocation, lookup,
\* preparation) fails leaves its row warm with the instance hash, IP, URL, node
\* and port of its VM, and when both succeed both rows are warm at the end of
\* the cycle.
C12_FirstCycle ==
    [][/\ (rpc = "sleep" /\ rpc' # "sleep" /\ Total = 0 /\ min_size = 2 /\ max_size = 4)
            => (rpc' = "gather" /\ rpending' = 2)
       /\ (FirstBatch /\ rpending > 0) => Cardinality(rtasks) < SemaphoreSize
       /\ (FirstBatch /\ nextId' # nextId)
            => (store'[nextId] = PlaceholderRow(now) /\ nextId \in rtasks' /\ rtasks \subseteq rtasks')
       /\ \A i \in rtasks \ rtasks' :
            (FirstBatch /\ ~(last'.op = "provision_failed" /\ last'.was \in ProvisionSteps))
                => /\ store'[i].status = "warm"
                   /\ store'[i].instance_hash = HashOf(i)
                   /\ store'[i].instance_hash # Pending
                   /\ store'[i].vm_ip = "vm_ipv4"
                   /\ store'[i].vm_url = "https://subdomain.2n6.me"
                   /\ store'[i].crn_url = "crn_url"
                   /\ store'[i].ssh_port = 24000
       /\ (FirstBatch /\ rpc' = "cleanup")
            => /\ nextId = 3
               /\ Total = 2
               /\ ({1, 2} \cap WithStatus("failed") = {} => WithStatus("warm") = {1, 2})
      ]_vars

\* the part that holds with the deployer of main.py: the first cycle decides on 2
\* VMs, inserts the placeholder rows 1 and 2, and neither attempt waits for the other
C12_InsertsTwoConcurrently ==
    [][/\ (rpc = "sleep" /\ rpc' # "sleep" /\ Total = 0 /\ min_size = 2 /\ max_size = 4)
            => (rpc' = "gather" /\ rpending' = 2)
       /\ (FirstBatch /\ rpending > 0) => Cardinality(rtasks) < SemaphoreSize
       /\ (FirstBatch /\ nextId' # nextId)
            => (store'[nextId] = PlaceholderRow(now) /\ nextId \in rtasks' /\ rtasks \subseteq rtasks')
       /\ (FirstBatch /\ rpc' = "cleanup") => (nextId = 3 /\ Total = 2)
      ]_vars

\* with the deployer of main.py no row is ever warm
C12_NeverWarmWired == WithStatus("warm") = {}

\* both attempts of the first cycle went through creation, allocation and lookup,
\* and both rows are failed when gather has collected them
C12_WitnessBothFailed ==
    /\ min_size = 2 /\ max_size = 4
    /\ rpc = "gather" /\ rtasks = {} /\ rpending = 0
    /\ nextId = 3
    /\ WithStatus("failed") = {1, 2}
    /\ last = [op |-> "provision_failed", id |-> 2, was |-> "TypeError", destroyed |-> {}]

\* the first cycle is complete and both rows are warm
C12_Witness ==
    /\ min_size = 2 /\ max_size = 4
    /\ rpc = "cleanup"
    /\ nextId = 3
    /\ WithStatus("warm") = {1, 2}
    /\ store[2].instance_hash = HashOf(2)

\* both attempts of the first cycle are in progress at once
C12_WitnessConcurrent ==
    FirstBatch /\ rtasks = {1, 2} /\ WithStatus("provisioning") = {1, 2}

(***************************************************************************)
(* Invariants of the rows.                                                 *)
(***************************************************************************)
\* C14: in every reachable state every claimed row has claimed_at set and
\* agent_id unset, and every deployed row has agent_id set.
C14_RowFields ==
    \A i \in Ids :
        /\ store[i].status = "claimed"
            => (store[i].claimed_at # NULL /\ store[i].agent_id = NULL)
        /\ store[i].status = "deployed" => store[i].agent_id # NULL

\* C15: a row enters status deployed only from status claimed.
C15_DeployedFromClaimed ==
    [][\A i \in Ids :
        (store'[i].status = "deployed" /\ store[i].status # "deployed")
            => store[i].status = "claimed"]_vars
(***************************************************************************)
(* Cleanup of warm rows by age.                                            *)
(***************************************************************************)
\* warm rows created more than, and less than, max_age_hours ago
OlderWarm == {i \in WithStatus("warm") : store[i].created_at + max_age < now}
YoungerWarm == {i \in WithStatus("warm") : store[i].created_at + max_age > now}

CleanupByAge ==
    last'.op = "cleanup" =>
        /\ \A i \in OlderWarm : i \in last'.destroyed /\ store'[i] = NoRow
        /\ \A i \in YoungerWarm : i \notin last'.destroyed /\ store'[i] = store[i]

\* C13: a cleanup pass requests the destruction of, and deletes, every warm row older
\* than max_age_hours, and leaves every younger warm row unchanged with no destruction
\* requested for it.
C13_CleanupByAge == [][CleanupByAge]_vars

\* on a host whose local time is UTC the pass does exactly that
C13_CleanupByAgeUtc == [][utc_offset = 0 => CleanupByAge]_vars

\* a pass on a host in UTC that destroys an old warm row and keeps a young one
C13_WitnessUtc ==
    /\ utc_offset = 0 /\ last.op = "cleanup" /\ last.destroyed # {}
    /\ \E i \in WithStatus("warm") : store[i].created_at + max_age > now
(***************************************************************************)
(* remove()                                                                *)
(***************************************************************************)
\* C18: remove(id, destroy) always deletes the row, whether the destruction succeeds,
\* answers an error or raises; the destruction is requested only when destroy is true
\* and the row exists; no other row is changed.
C18_RemoveDeletes ==
    [][last'.op = "remove" =>
        /\ store'[last'.id] = NoRow
        /\ \A j \in Ids \ {last'.id} : store'[j] = store[j]
        /\ last'.destroyed \subseteq {last'.id}
        /\ last'.destroyed # {} => (last'.was # "keep" /\ Exists(last'.id))]_vars

\* an existing row removed although its destruction raised
C18_Witness ==
    /\ last.op = "remove" /\ last.was = "raise" /\ last.destroyed = {last.id}
    /\ store[last.id] = NoRow
    /\ \E j \in Ids : Exists(j)

\* an existing row removed with destroy_vm false: no destruction requested
C18_WitnessKeep ==
    /\ last.op = "remove" /\ last.was = "keep" /\ last.destroyed = {}
    /\ last.id < nextId /\ store[last.id] = NoRow
(***************************************************************************)
(* A failed provisioning attempt.                                          *)
(***************************************************************************)
\* C17: when a provisioning attempt fails at any step (creation, allocation, subdomain
\* lookup, preparation) its row stays, with status failed; the other attempts of the
\* batch still run to completion; and the replenish loop goes on with its cycle.
C17_FailureIsolated ==
    [][/\ last'.op = "provision_failed" =>
            /\ store'[last'.id] = [store[last'.id] EXCEPT !.status = "failed"]
            /\ \A j \in Ids \ {last'.id} : store'[j] = store[j]
            /\ rtasks' = rtasks \ {last'.id}
            /\ rpending' = rpending
            /\ rpc' = "gather"
       /\ (rpc = "gather" /\ rpc' # "gather") =>
            /\ rtasks = {} /\ rpending = 0
            /\ rpc' = "cleanup"]_vars

\* an attempt failed at prepare_vm while another attempt of the batch is in flight
C17_Witness ==
    /\ last.op = "provision_failed" /\ last.was = "prepare_vm"
    /\ store[last.id].status = "failed"
    /\ rtasks # {}
    /\ rpc = "gather"

\* the other attempt of the batch completed after the failure, and a later cycle of
\* the loop provisions again
C17_WitnessNextCycle ==
    /\ rpc = "gather"
    /\ \E i, j, k \in Ids :
        /\ i < k /\ j < k
        /\ store[i].status = "failed"
        /\ store[j].status = "warm"
        /\ store[k].status = "provisioning"
(***************************************************************************)
(* Uniqueness of instance hashes.                                          *)
(***************************************************************************)
\* C16: in every reachable pool state no two rows hold the same non-placeholder
\* instance_hash; only the placeholder 'pending' may be shared by several rows.
C16_UniqueHash ==
    \A i, j \in Ids :
        (i # j /\ Exists(i) /\ Exists(j)
              /\ store[i].instance_hash = store[j].instance_hash)
            => store[i].instance_hash = Pending

\* create_instance answered a hash another row holds: the row stays a failed
\* placeholder, and shares 'pending' with another row
C16_Witness ==
    /\ last.op = "provision_update" /\ last.was = "IntegrityError"
    /\ store[last.id].status = "failed"
    /\ \E j \in Ids \ {last.id} : Exists(j) /\ store[j].instance_hash # Pending
    /\ \E j \in Ids \ {last.id} : Exists(j) /\ store[j].instance_hash = Pending
(***************************************************************************)
(* deploy_agent                                                            *)
(***************************************************************************)
\* C19: for every sequence of outcomes of the remote commands and gateway lookups,
\* deploy_agent without a progress callback issues the same sequence of remote
\* operations and returns the same result and steps as with a callback.
C19_CallbackTransparent ==
    /\ da[FALSE].ops = da[TRUE].ops
    /\ da[FALSE].steps = da[TRUE].steps
    /\ da[FALSE].result = da[TRUE].result
    /\ da[FALSE].pc = da[TRUE].pc

\* both calls returned success, the callback having been called in one of them only
C19_Witness ==
    /\ da[TRUE].pc = "returned" /\ da[TRUE].result.status = "success"
    /\ da[FALSE].pc = "returned"
    /\ Len(da[TRUE].notes) > 0 /\ da[FALSE].notes = <<>>

\* C20: every bounded operation of the deployer ends with a success, error or timeout
\* outcome once its budget is exhausted: no execution waits forever on a peer that
\* never responds or never closes its connection.
C20_OperationsEnd == <>(da[TRUE].pc = "returned")

\* every await of deploy_agent other than the wait for the ssh process of
\* _ssh_pipe_tar ends
C20_EndsOrWaitsForSsh == <>(da[TRUE].pc \in {"returned"} \cup NoTimeout)

\* deploy_agent is stuck in _ssh_pipe_tar
C20_WitnessStuck == da[TRUE].pc = "tar_wait" /\ peer = "silent"
(***************************************************************************)
(* Concurrency of the replenisher.                                         *)
(***************************************************************************)
\* C21: at every moment at most 2 provisioning attempts of the replenisher are in
\* progress, whatever the computed deficit; an attempt beyond the second starts, and
\* inserts its placeholder row, only after an earlier one has finished.
C21_AtMostTwoAttempts ==
    [][/\ Cardinality(rtasks) <= SemaphoreSize
       /\ Cardinality(rtasks') <= SemaphoreSize
       /\ \A i \in Ids :
            (~Exists(i) /\ store'[i].status = "provisioning")
                => (rtasks' = rtasks \cup {i} /\ Cardinality(rtasks) < SemaphoreSize)]_vars

\* the third attempt of a cycle started after an earlier one had finished, while the
\* other is still in progress
C21_Witness ==
    /\ rpc = "gather" /\ rpending = 0
    /\ nextId = 4 /\ 3 \in rtasks
    /\ Cardinality(rtasks) = SemaphoreSize
    /\ \E i \in Ids : i \notin rtasks /\ Exists(i) /\ store[i].status \in {"warm", "failed"}

\* the third attempt waits for the semaphore
C21_WitnessWaiting == rpc = "gather" /\ rpending = 1 /\ Cardinality(rtasks) = SemaphoreSize
\* C22: the cleanup pass and the replenish pass do not block each other: a cleanup pass
\* can start while a provisioning attempt of the replenisher is in progress, and a
\* failure of a replenish pass does not keep the cleanup pass of the same period
\* from running.
C22_PassesIndependent ==
    [][/\ (booted /\ rtasks # {}) => ENABLED CleanupStale
       /\ last'.op = "replenish_failed" => rpc' = "cleanup"]_vars

\* a cleanup pass never runs while an attempt is in progress: it follows the gather
C22_CleanupAfterGather == [][last'.op = "cleanup" => (rtasks = {} /\ rpending = 0)]_vars

\* a failed replenish pass is followed by the sleep of the loop
C22_FailedPassSleeps == [][last'.op = "replenish_failed" => rpc' = "sleep"]_vars

\* an orphaned claim is due for release while an attempt is in progress
C22_WitnessBlocked == rtasks # {} /\ OrphanedClaimed # {}
(***************************************************************************)
(* create_instance of baal_core: probe, creation, start.                   *)
(***************************************************************************)
\* the candidate the probe loop is at, and the key _blacklist_crn files it under
Probed == ci.candidates[ci.k]
ProbedUrl == NormalizeUrl(Probed.url)
\* this step of the probe loop passes the candidate over
PassedOver == ci.pc = "probe" /\ (ci'.pc = "done" \/ (ci'.pc = "probe" /\ ci'.k = ci.k + 1))

\* the probe loop walks crns[:5] in order, selects the candidate that answers and
\* returns the error, with no instance created, when none does
ProbeInOrder ==
    (ci.pc = "probe" /\ ci' # ci) =>
        /\ ci.k \in 1..Len(ci.candidates)
        /\ Len(ci.candidates) <= MaxCandidates
        /\ ci.candidates = SubSeq(ci.crns, 1, Len(ci.candidates))
        /\ ci'.pc \in {"probe", "create", "done"}
        /\ ci'.pc = "probe" => ci'.k = ci.k + 1
        /\ ci'.pc = "create" => (ci'.selected = Probed.hash /\ ci'.crn_url = ProbedUrl)
        /\ ci'.pc = "done" =>
              (ci.k = Len(ci.candidates) /\ ci'.result = ErrorResult
                  /\ ci'.instance_hash = NoHash)

\* C23: create_instance probes the candidates in rank order, at most the top 5, and
\* selects the first whose probe answers with a status below 500; every candidate
\* probed and passed over (no response, or a status of 500 and above) is blacklisted;
\* when no probed candidate qualifies the error is returned and no instance created.
C23_ProbeBlacklistsPassedOver ==
    [][/\ ProbeInOrder
       /\ PassedOver =>
            (added_at'[ProbedUrl] = mono /\ crn_blacklist'[ProbedUrl] = mono + CRN_BLACKLIST_TTL)]_vars

\* order, selection and the error are as the claim says
C23_ProbeInOrder == [][ProbeInOrder]_vars

\* a candidate passed over is blacklisted in that step or not at all
C23_PassedOverMaybeBlacklisted ==
    [][PassedOver =>
        \/ added_at'[ProbedUrl] = mono /\ crn_blacklist'[ProbedUrl] = mono + CRN_BLACKLIST_TTL
        \/ UNCHANGED <<added_at, crn_blacklist>>]_vars

\* the second candidate was selected after the first was passed over unblacklisted
C23_WitnessSkipped ==
    /\ ci.pc = "create" /\ ci.k = 2
    /\ added_at[NormalizeUrl(ci.candidates[1].url)] = NULL
\* C24: when the network creation call fails, the selected node is blacklisted, the
\* returned error carries no instance_hash, and neither the propagation verification
\* nor any start attempt is performed.
C24_CreationFailure ==
    [][/\ (ci.pc = "create" /\ ci' # ci) =>
            /\ ci'.pc \in {"verify", "done"}
            /\ ci'.pc = "verify" => ci'.instance_hash # NoHash
            /\ ci'.pc = "done" =>
                  /\ added_at'[ci.crn_url] = mono
                  /\ crn_blacklist'[ci.crn_url] = mono + CRN_BLACKLIST_TTL
                  /\ ci'.result.status = "error"
                  /\ ci'.result.instance_hash = NoHash
                  /\ ci'.instance_hash = NoHash
                  /\ ci'.attempt = 0 /\ ci'.failures = 0
       /\ ci.pc \in {"verify", "propagate", "start"} => ci.instance_hash # NoHash]_vars

\* the creation call failed on the selected node
C24_Witness ==
    /\ ci.pc = "done" /\ ci.selected # "" /\ ci.instance_hash = NoHash
    /\ ci.result.status = "error"
    /\ added_at[ci.crn_url] = mono
\* C25: after the instance is created every start attempt targets the selected node
\* only, at most 3 attempts are made, no attempt follows one that returned HTTP 200,
\* and the call returns success with the instance hash and the url of the selected
\* node if and only if some attempt returned HTTP 200.
C25_StartLoop ==
    [][(ci.pc = "start" /\ ci' # ci) =>
        /\ ci.attempt = ci.failures /\ ci.attempt < max_start_attempts
        /\ ci'.crn_url = ci.crn_url /\ ci'.selected = ci.selected
        /\ ci'.instance_hash = ci.instance_hash
        /\ ci.crn_url = NormalizeUrl(ci.candidates[ci.k].url)
        /\ ci.selected = ci.candidates[ci.k].hash
        /\ \/ /\ ci'.failures = ci.failures
              /\ ci'.pc = "done"
              /\ ci'.result = [status |-> "success", instance_hash |-> ci.instance_hash,
                               crn_url |-> ci.crn_url]
           \/ /\ ci'.failures = ci.failures + 1
              /\ ci'.result.status # "success"
              /\ IF ci'.failures < max_start_attempts
                 THEN ci'.pc = "start" /\ ci'.attempt = ci.attempt + 1
                 ELSE ci'.pc = "done" /\ ci'.result.status = "error"]_vars

\* the third start attempt returned 200 after two that failed
C25_Witness ==
    /\ ci.pc = "done" /\ ci.result.status = "success"
    /\ ci.failures = max_start_attempts - 1
    /\ ci.result.crn_url = ci.crn_url /\ ci.result.instance_hash = ItemHash(ci.selected)

\* all three start attempts failed
C25_WitnessFailed ==
    ci.pc = "done" /\ ci.result.status = "error" /\ ci.failures = max_start_attempts

(***************************************************************************)
(* Properties of create_instance of baal.services.deployer.                *)
(***************************************************************************)
\* C26: one call of the multi-node create_instance creates at most one instance:
\* once instance_hash is set it stays the same for the rest of the call, every
\* start notification of the call carries it, a node whose start notification
\* failed is blacklisted, no more than min(5, len(crns)) nodes are tried, and
\* the hash of a result that carries one (success, or failure after a creation)
\* is that of the one instance created.
C26_OneInstancePerCall ==
    [][/\ Cardinality(mn'.network) <= 1
       /\ (mn.instance_hash # NoHash /\ mn'.pc # "idle")
            => mn'.instance_hash = mn.instance_hash
       /\ \A x \in mn'.notified : mn'.network = {x[2]}
       /\ (mn.pc = "start" /\ mn' # mn /\ mn'.result.status # "success")
            => BlacklistedIn(crn_blacklist', mono', MnCrnUrl(mn))
       /\ (mn'.pc \in {"create", "start"})
            => mn'.crn_attempt + 1 <= Min(5, Len(mn'.crns))
       /\ Cardinality({x[1] : x \in mn'.notified}) <= Min(5, Len(mn'.crns))
       /\ (mn'.pc = "done" /\ mn'.network # {})
            => mn'.network = {mn'.result.instance_hash}
       /\ (mn'.pc = "done" /\ mn'.result.status = "success")
            => /\ mn'.network = {mn'.result.instance_hash}
               /\ <<mn'.result.crn_url, mn'.result.instance_hash>> \in mn'.notified
       /\ (mn'.pc = "done" /\ mn'.network = {}) => mn'.result = ErrorResult
      ]_vars

\* six nodes were listed: creation failed on the first, succeeded on the second,
\* and the start of that instance was refused by the second to the fifth node
C26_Witness ==
    /\ mn.pc = "done"
    /\ Len(mn.crns) = 6
    /\ mn.crn_attempt = 4
    /\ mn.network = {ItemHash("crn2")}
    /\ Cardinality(mn.notified) = 4
    /\ mn.result = StartFailedResult(ItemHash("crn2"))

\* the instance created for the first node was started on the third
C26_WitnessAlternate ==
    /\ mn.pc = "done"
    /\ mn.result = SuccessResult(ItemHash("crn1"), Url("https", "crn3", FALSE))

(***************************************************************************)
(* Properties of wait_for_allocation.                                      *)
(***************************************************************************)
\* C27: the check that yields an IP ends the call with that allocation, and a
\* call that has its result makes no further check, notification or sleep; the
\* start notification is sent again exactly before the checks of the attempts
\* 4, 8, ... (0-based) and never before the first one; after a notification,
\* failed or not, the check of the same attempt follows.
C27_ReturnsOnFirstIp ==
    [][/\ (wfa.pc = "check" /\ wfa'.found # wfa.found)
            => /\ wfa'.pc = "done"
               /\ wfa'.result # NoAllocation
               /\ wfa'.found = 1
               /\ wfa'.checks = wfa'.attempt + 1
               /\ ~wfa'.raised
       /\ (wfa.pc = "done" /\ wfa' # wfa) => wfa' = WfaIdle
       /\ (wfa.pc = "notify") => (wfa.attempt > 0 /\ wfa.attempt % 4 = 0)
       /\ (wfa'.pc = "check" /\ wfa' # wfa)
            => (wfa.pc = "notify" <=> (wfa'.attempt \in {4, 8, 12}))
       /\ (wfa.pc = "notify" /\ wfa' # wfa)
            => /\ wfa'.pc = "check"
               /\ wfa'.attempt = wfa.attempt
               /\ wfa'.checks = wfa.checks
               /\ ~wfa'.raised
      ]_vars

\* the ninth check (attempt 8) found the IP, after the notifications before the
\* attempts 4 and 8 had both failed
C27_Witness ==
    /\ wfa.pc = "done"
    /\ wfa.found = 1
    /\ wfa.checks = 2 * NotifyEvery + 1
    /\ wfa.notify_failed = 2
    /\ wfa.result = Allocation("vm_ipv4", DefaultSshPort)

\* the first check found the IP: no notification, no sleep
C27_WitnessFirst ==
    wfa.pc = "done" /\ wfa.found = 1 /\ wfa.checks = 1 /\ wfa.attempt = 0 /\ wfa.since = 0

(***************************************************************************)
(* Properties of deploy_agent: order of the sub-steps, failure policy.     *)
(***************************************************************************)
\* the remote operations of deploy_agent in the order of the claim: SSH readiness
\* (1), install-if-missing (2, 3), code transfer (4 to 8), config write (9),
\* service start (10, 11), subdomain lookup (12), proxy config and start (13 to 16)
OpOrder(op) ==
    CASE op = "echo ready" -> 1
      [] op = "test -x python3" -> 2
      [] op = "install_cmd" -> 3
      [] op = "mkdir -p" -> 4
      [] op = "tar | ssh tar" -> 5
      [] op = "cp memory" -> 6
      [] op \in {"_deploy_skills", "cp skills"} -> 7
      [] op = "pip install" -> 8
      [] op = "write .env" -> 9
      [] op = "write baal-agent.service" -> 10
      [] op = "systemctl start baal-agent" -> 11
      [] op = "lookup_subdomain" -> 12
      [] op = "which caddy" -> 13
      [] op = "caddy_install" -> 14
      [] op = "write Caddyfile" -> 15
      [] op = "systemctl start caddy" -> 16
      [] OTHER -> 0
\* the operations were issued in that order, each once but for the readiness probe
InOrder(ops) ==
    \A i \in 1..Len(ops) - 1 :
        /\ OpOrder(ops[i]) > 0
        /\ OpOrder(ops[i]) <= OpOrder(ops[i + 1])
        /\ OpOrder(ops[i]) = OpOrder(ops[i + 1]) => ops[i] = "echo ready"
\* the sub-steps whose failure ends the call, with the error each returns
FatalAt ==
    [install |-> "Dep install failed", tar_pipe |-> "Failed to deploy agent code",
     tar_wait |-> "Failed to deploy agent code", start_agent |-> "Service start failed",
     lookup |-> "Could not resolve 2n6.me subdomain", caddy_start |-> "Caddy start failed"]

\* C28: deploy_agent issues its remote operations in the order SSH readiness,
\* install-if-missing, code transfer, config write, service start, subdomain
\* lookup, proxy config and start; a failure of the last readiness attempt, of
\* the install, the transfer, the service start, the lookup or the proxy start
\* makes it return an error, after which no operation is issued; success, with
\* the public URL, is returned only by the step in which the proxy start
\* succeeded, after one operation of every sub-step.
C28_OrderAndFailurePolicy ==
    [][/\ \A code \in Codes :
         LET d == da[TRUE]
             e == da'[TRUE]
         IN  (d.pc # "returned" /\ e # d /\ e = DeployAgentStep(d, code))
             => /\ InOrder(e.ops)
                /\ Len(e.ops) <= Len(d.ops) + 1
                /\ (code # 0 /\ d.pc \in DOMAIN FatalAt)
                     => /\ e.pc = "returned"
                        /\ e.result.status = "error"
                        /\ e.result.error = FatalAt[d.pc]
                        /\ e.result.vm_url = ""
                /\ (code # 0 /\ d.pc = "ssh" /\ d.attempt = SshAttempts - 1)
                     => /\ e.pc = "returned"
                        /\ e.result.status = "error"
                        /\ e.result.error = "SSH not reachable"
                        /\ \A i \in 1..Len(e.ops) : e.ops[i] = "echo ready"
                /\ (e.result.status = "success")
                     => /\ d.pc = "caddy_start" /\ code = 0
                        /\ e.pc = "returned"
                        /\ e.result.vm_url = "https://subdomain.2n6.me"
                        /\ e.ops[Len(e.ops)] = "systemctl start caddy"
                        /\ {1, 2, 5, 9, 11, 12, 15, 16}
                             \subseteq {OpOrder(e.ops[i]) : i \in 1..Len(e.ops)}
       /\ (da[TRUE].pc = "returned" => da'[TRUE] = da[TRUE])
      ]_vars

\* a call that installed the dependencies and the proxy returned success
C28_Witness ==
    /\ da[TRUE].pc = "returned"
    /\ da[TRUE].result.status = "success"
    /\ \E i \in 1..Len(da[TRUE].ops) : da[TRUE].ops[i] = "install_cmd"
    /\ \E i \in 1..Len(da[TRUE].ops) : da[TRUE].ops[i] = "caddy_install"

\* the service start failed: the call returned its error before the lookup
C28_WitnessFailed ==
    /\ da[TRUE].pc = "returned"
    /\ da[TRUE].result.error = "Service start failed"
    /\ da[TRUE].ops[Len(da[TRUE].ops)] = "systemctl start baal-agent"

(***************************************************************************)
(* Properties of prepare_vm.                                               *)
(***************************************************************************)
\* C29: whenever prepare_vm returns success the reverse proxy is installed on
\* the VM and is not running, whatever the remote commands of the call answered.
C29_ProxyInstalledNotRunning ==
    (pv.pc = "returned" /\ pv.result.status = "success")
        => (vm.caddy_installed /\ ~vm.caddy_running)

\* the part that holds: success is returned only with the venv and the proxy installed
C29_SuccessMeansInstalled ==
    (pv.pc = "returned" /\ pv.result.status = "success")
        => (vm.venv /\ vm.caddy_installed)

\* the first call on a blank VM returned success and the proxy is running
C29_WitnessRunning ==
    /\ pv.pc = "returned" /\ pv.result.status = "success"
    /\ ~pv.prepared
    /\ vm.caddy_installed /\ vm.caddy_running

\* C30: prepare_vm is idempotent: called on a VM that an earlier call prepared it
\* runs neither install command again, returns success, and leaves the VM as
\* the first call left it.
C30_Idempotent ==
    [][(pv.prepared /\ pv' # pv)
            => /\ pv.pc \notin {"install", "caddy_install"}
               /\ pv'.pc \notin {"install", "caddy_install"}
               /\ (pv'.pc = "returned")
                    => (pv'.result.status = "success" /\ vm' = pv.first)
      ]_vars

\* the part that holds: a later call removes nothing an earlier call installed
C30_InstalledStays ==
    pv.prepared => (vm.venv /\ vm.caddy_installed)

\* a call on a prepared VM ran the install command again and returned its error
C30_WitnessErrorOnPrepared ==
    /\ pv.prepared
    /\ pv.pc = "returned"
    /\ pv.result = [status |-> "error", error |-> "Dep install failed"]

\* a call on a prepared VM with a stopped proxy returned success with the proxy running
C30_WitnessStateChanged ==
    /\ pv.prepared /\ ~pv.first.caddy_running
    /\ pv.pc = "returned" /\ pv.result.status = "success"
    /\ vm.caddy_running

(***************************************************************************)
(* Properties of _cleanup_stale on claimed, failed, provisioning rows.     *)
(***************************************************************************)
\* rows older and younger than the bound of their status, by the wall clock
OlderThan(status, age) ==
    {i \in WithStatus(status) :
        (IF status = "claimed" THEN store[i].claimed_at ELSE store[i].created_at) + age < now}
YoungerThan(status, age) ==
    {i \in WithStatus(status) :
        (IF status = "claimed" THEN store[i].claimed_at ELSE store[i].created_at) + age > now}

CleanupByStatus ==
    last'.op = "cleanup" =>
        /\ \A i \in OlderThan("claimed", ClaimedMaxAge) :
              /\ store'[i] = [store[i] EXCEPT !.status = "warm", !.claimed_at = NULL,
                                              !.agent_id = NULL]
              /\ store'[i].claimed_at = NULL
        /\ \A i \in OlderThan("failed", FailedMaxAge) : store'[i] = NoRow
        /\ \A i \in OlderThan("provisioning", ProvisioningMaxAge) : store'[i] = NoRow
        /\ \A i \in YoungerThan("claimed", ClaimedMaxAge) : store'[i] = store[i]
        /\ \A i \in YoungerThan("failed", FailedMaxAge) : store'[i] = store[i]
        /\ \A i \in YoungerThan("provisioning", ProvisioningMaxAge) : store'[i] = store[i]
        /\ \A i \in WithStatus("deployed") : store'[i] = store[i]

\* C31: a cleanup pass releases (claimed to warm, claimed_at cleared) every
\* claimed row whose claimed_at is older than 10 minutes, deletes every failed
\* row older than 1 hour and every provisioning row older than 30 minutes, and
\* leaves unchanged every claimed, failed or provisioning row younger than its
\* bound and every deployed row.
C31_CleanupByStatus == [][CleanupByStatus]_vars

\* on a host whose local time is UTC the pass does exactly that
C31_CleanupByStatusUtc == [][utc_offset = 0 => CleanupByStatus]_vars

\* whatever the host's time zone, a pass leaves the deployed rows unchanged
C31_DeployedUntouched ==
    [][last'.op = "cleanup" => \A i \in WithStatus("deployed") : store'[i] = store[i]]_vars

\* a pass on a host in UTC that is about to release a claimed row older than 10 minutes
C31_WitnessUtc ==
    /\ utc_offset = 0
    /\ rpc = "cleanup"
    /\ OlderThan("claimed", ClaimedMaxAge) # {}

\* a pass on a host in UTC that is about to delete a failed row older than 1 hour
C31_WitnessFailedUtc ==
    /\ utc_offset = 0
    /\ rpc = "cleanup"
    /\ OlderThan("failed", FailedMaxAge) # {}

\* a pass with a deployed row in the table
C31_WitnessDeployed == rpc = "cleanup" /\ WithStatus("deployed") # {}

\* a pass on a host behind UTC finds a claimed row younger than 10 minutes that it
\* is about to release
C31_WitnessShifted ==
    /\ utc_offset # 0
    /\ rpc = "cleanup"
    /\ YoungerThan("claimed", ClaimedMaxAge) \cap OrphanedClaimed # {}

====
